---- MODULE Spec2Model ----
(***************************************************************************)
(* Model of the XRootD MCP server engine: the path sandbox                 *)
(* (XRootDClient.resolvePath), the LRUCache of the cache test suite, the   *)
(* DirectoryCache used by XRootDClient and the listing / aggregation       *)
(* operations of XRootDClient.                                             *)
(*                                                                         *)
(* Strings are sequences of one-character strings, so that startsWith,     *)
(* split, join and replace work on characters as they do in the source.    *)
(***************************************************************************)
EXTENDS Integers, Sequences, FiniteSets, TLC

VARIABLES
    baseDirectory,  \* XRootDClient.baseDirectory (set by the constructor)
    rp,             \* path-resolution run: the logical path and its results
    now,            \* Date.now()
    lruMaxSize,     \* LRUCache.maxSize (set by the constructor)
    lru,            \* LRUCache.cache: the Map's records in insertion order
    lruLast,        \* the last LRUCache call: its arguments, its result and what it found
    lruWritten,     \* per key held, the value and time of the last set(key, value) call
    enableCache,    \* the constructor's enableCache argument
    cache,          \* XRootDClient.cache: the DirectoryCache's records in insertion order
    remote,         \* the remote hierarchy: directory path -> its entries
    tasks           \* the top-level calls: arguments, position, result

pathVars == <<baseDirectory, rp>>
lruVars  == <<lruMaxSize, lru, lruLast, lruWritten>>
clientVars == <<enableCache, cache, remote, tasks>>
vars == <<baseDirectory, rp, now, lruMaxSize, lru, lruLast, lruWritten,
          enableCache, cache, remote, tasks>>

(***************************************************************************)
(* Bounds                                                                  *)
(***************************************************************************)
MaxSegs == 3        \* segments in a caller-supplied logical path
MaxTime == 2        \* the clock stops here
LruMaxSize == 2     \* maxSize of the LRUCache under test
LruTtl == 1         \* ttlMs of the LRUCache under test
CacheTtl == 1       \* cacheTTLMinutes of the client's DirectoryCache
CacheCapacity == 2  \* capacity of the client's DirectoryCache

(***************************************************************************)
(* String helpers (JavaScript String / Array methods)                      *)
(***************************************************************************)
Slash == <<"/">>

\* String.prototype.startsWith
StartsWith(s, p) == Len(p) <= Len(s) /\ SubSeq(s, 1, Len(p)) = p

\* s.replace(/\/+/g, '/'): every run of slashes becomes one slash
RECURSIVE CollapseSlashes(_)
CollapseSlashes(s) ==
    IF Len(s) <= 1 THEN s
    ELSE IF s[1] = "/" /\ s[2] = "/" THEN CollapseSlashes(Tail(s))
         ELSE <<s[1]>> \o CollapseSlashes(Tail(s))

\* s.replace(/\/$/, ''): one trailing slash is dropped
StripTrailingSlash(s) ==
    IF Len(s) > 0 /\ s[Len(s)] = "/" THEN SubSeq(s, 1, Len(s) - 1) ELSE s

\* s.split(sep): the pieces between separators, empty pieces included
RECURSIVE SplitAcc(_, _, _, _)
SplitAcc(s, sep, cur, acc) ==
    IF s = <<>> THEN Append(acc, cur)
    ELSE IF s[1] = sep THEN SplitAcc(Tail(s), sep, <<>>, Append(acc, cur))
         ELSE SplitAcc(Tail(s), sep, Append(cur, s[1]), acc)

SplitBy(s, sep) == SplitAcc(s, sep, <<>>, <<>>)

\* s.split('/')
Split(s) == SplitBy(s, "/")

\* parts.join('/')
RECURSIVE Join(_)
Join(parts) ==
    IF parts = <<>> THEN <<>>
    ELSE IF Len(parts) = 1 THEN parts[1]
         ELSE parts[1] \o Slash \o Join(Tail(parts))

\* s.split('/').pop(): the piece after the last slash
LastPiece(s) == LET ps == Split(s) IN ps[Len(ps)]

(***************************************************************************)
(* XRootDClient.resolvePath                                                *)
(***************************************************************************)
Dot    == <<".">>
DotDot == <<".", ".">>

\* resolved.split('/').filter(p => p && p !== '.')
RECURSIVE FilterParts(_)
FilterParts(parts) ==
    IF parts = <<>> THEN <<>>
    ELSE IF parts[1] = <<>> \/ parts[1] = Dot THEN FilterParts(Tail(parts))
         ELSE <<parts[1]>> \o FilterParts(Tail(parts))

\* the for loop over parts: '..' pops (a no-op on the empty array), the rest is pushed
RECURSIVE NormalizeParts(_, _)
NormalizeParts(parts, normalized) ==
    IF parts = <<>> THEN normalized
    ELSE IF parts[1] = DotDot
         THEN NormalizeParts(Tail(parts),
                  IF normalized = <<>> THEN <<>>
                  ELSE SubSeq(normalized, 1, Len(normalized) - 1))
         ELSE NormalizeParts(Tail(parts), Append(normalized, parts[1]))

\* '/' + normalized.join('/') of a string
NormalizedPath(s) == Slash \o Join(NormalizeParts(FilterParts(Split(s)), <<>>))

Denied == [ok |-> FALSE, path |-> <<>>]
Resolved(p) == [ok |-> TRUE, path |-> p]

\* a plausible slip: the absolute-path branch is missing, every path is
\* taken relative to the base directory
resolvePathAllRelative(base, path) ==
    LET normalizedPath == NormalizedPath(CollapseSlashes(base \o Slash \o path))
    IN  IF ~StartsWith(normalizedPath, base) THEN Denied
        ELSE Resolved(normalizedPath)

\* resolvePath(path) of a client whose baseDirectory is base: the resolved
\* path, or Denied when the code throws "Access denied"
resolvePath(base, path) ==
    IF StartsWith(path, Slash)
    THEN IF ~StartsWith(path, base) THEN Denied ELSE Resolved(path)
    ELSE LET resolved == CollapseSlashes(base \o Slash \o path)
             normalizedPath == NormalizedPath(resolved)
         IN  IF ~StartsWith(normalizedPath, base) THEN Denied
             ELSE Resolved(normalizedPath)

\* constructor: baseDirectory.replace(/\/$/, '') || '/'
ConstructBase(arg) ==
    LET b == StripTrailingSlash(arg) IN IF b = <<>> THEN Slash ELSE b

(***************************************************************************)
(* Inputs                                                                  *)
(***************************************************************************)
\* path segments a caller may write: names, '.', '..' and the empty
\* segment (a doubled or trailing slash)
Segments == { <<>>, Dot, DotDot, <<"d">>, <<"d", "b">>, <<"e">> }

SegSeqs == UNION { [1..n -> Segments] : n \in 0..MaxSegs }

\* absolute and relative logical paths
LogicalPaths ==
    { Join(ss) : ss \in SegSeqs } \cup { Slash \o Join(ss) : ss \in SegSeqs }

\* base directories as handed to the constructor
BaseArgs == { Slash, <<"/", "d">>, <<"/", "d", "/">>, <<"/", "d", "/", "e">> }

(***************************************************************************)
(* Path resolution: SpecPath                                               *)
(***************************************************************************)
\* keys and values the tests store; one key more than the largest cache can hold
LruKeys   == 1..(LruMaxSize + 2)
LruValues == {"x", "y"}
Undefined == "undefined"
NeverSet == [value |-> "undefined", at |-> -1]
NotRun == [ok |-> FALSE, path |-> <<"?">>]

\* no client constructed: no cache records, no remote hierarchy, no calls
IdleClient ==
    /\ enableCache = TRUE
    /\ cache = <<>>
    /\ remote = <<>>
    /\ tasks = <<>>

IdleLru ==
    /\ now = 0
    /\ lruMaxSize = LruMaxSize
    /\ lru = <<>>
    /\ lruLast = [op |-> "new", key |-> 0, ret |-> Undefined, at |-> 0,
                  had |-> FALSE, sizeBefore |-> 0, written |-> NeverSet]
    /\ lruWritten = [k \in LruKeys |-> NeverSet]

InitPath ==
    /\ IdleLru
    /\ IdleClient
    /\ baseDirectory \in { ConstructBase(a) : a \in BaseArgs }
    /\ rp \in { [path |-> p, stage |-> 0, r1 |-> NotRun, r2 |-> NotRun]
                : p \in LogicalPaths }

\* resolvePath(path)
Resolve ==
    /\ rp.stage = 0
    /\ rp' = [rp EXCEPT !.stage = 1, !.r1 = resolvePath(baseDirectory, rp.path)]
    /\ UNCHANGED <<baseDirectory, now, lruVars, clientVars>>

\* resolvePath applied to the path a successful resolvePath returned
ResolveAgain ==
    /\ rp.stage = 1
    /\ rp.r1.ok
    /\ rp' = [rp EXCEPT !.stage = 2, !.r2 = resolvePath(baseDirectory, rp.r1.path)]
    /\ UNCHANGED <<baseDirectory, now, lruVars, clientVars>>

NextPath == Resolve \/ ResolveAgain

SpecPath == InitPath /\ [][NextPath]_vars

(***************************************************************************)
(* LRUCache (cache test suite)                                             *)
(***************************************************************************)

\* Map helpers: a Map is the sequence of its records in insertion order
MapKeys(m) == { m[i].key : i \in 1..Len(m) }
MapHas(m, k) == k \in MapKeys(m)
MapIndex(m, k) == CHOOSE i \in 1..Len(m) : m[i].key = k
MapGet(m, k) == m[MapIndex(m, k)]

\* Map.prototype.set: an existing key keeps its place, a new key goes last
MapSet(m, rec) ==
    IF MapHas(m, rec.key) THEN [m EXCEPT ![MapIndex(m, rec.key)] = rec]
    ELSE Append(m, rec)

\* Map.prototype.delete
MapDelete(m, k) ==
    IF MapHas(m, k)
    THEN LET i == MapIndex(m, k) IN SubSeq(m, 1, i - 1) \o SubSeq(m, i + 1, Len(m))
    ELSE m

\* a plausible slip: a write to a key the Map holds evicts nothing
LruAfterSetSparing(m, k, v, t) ==
    LET evicted == IF Len(m) >= lruMaxSize /\ Len(m) > 0 /\ ~MapHas(m, k)
                   THEN MapDelete(m, m[1].key)
                   ELSE m
    IN  MapSet(evicted, [key |-> k, value |-> v, timestamp |-> t])

\* a plausible slip: the capacity check is forgotten
LruAfterSetNoEvict(m, k, v, t) == MapSet(m, [key |-> k, value |-> v, timestamp |-> t])

\* LRUCache.set: the Map after set(k, v) at time t
LruAfterSet(m, k, v, t) ==
    LET evicted == IF Len(m) >= lruMaxSize /\ Len(m) > 0
                   THEN MapDelete(m, m[1].key)     \* this.cache.keys().next().value
                   ELSE m
    IN  MapSet(evicted, [key |-> k, value |-> v, timestamp |-> t])

\* a plausible slip: the expiry test is dropped
LruExpiredNever(rec, t) == FALSE

\* LRUCache.get: Date.now() - entry.timestamp > this.ttl
LruExpired(rec, t) == t - rec.timestamp > LruTtl

\* LRUCache.get: the value returned by get(k) at time t
LruGetResult(m, k, t) ==
    IF ~MapHas(m, k) THEN Undefined
    ELSE IF LruExpired(MapGet(m, k), t) THEN Undefined
         ELSE MapGet(m, k).value

\* a plausible slip: a read moves the record to the end of the Map, as a
\* least-recently-used cache would
LruAfterGetTouch(m, k, t) ==
    IF ~MapHas(m, k) THEN m
    ELSE IF LruExpired(MapGet(m, k), t) THEN MapDelete(m, k)
         ELSE Append(MapDelete(m, k), MapGet(m, k))

\* LRUCache.get: the Map after get(k) at time t (an expired record is deleted)
LruAfterGet(m, k, t) ==
    IF MapHas(m, k) /\ LruExpired(MapGet(m, k), t) THEN MapDelete(m, k) ELSE m

\* no path-resolution run
IdleRp == rp = [path |-> <<>>, stage |-> 0, r1 |-> NotRun, r2 |-> NotRun]

IdlePath ==
    /\ baseDirectory = Slash
    /\ IdleRp

\* new LRUCache(maxSize, ttlMs)
InitLruOf(maxSize) ==
    /\ IdlePath
    /\ IdleClient
    /\ now = 0
    /\ lruMaxSize = maxSize
    /\ lru = <<>>
    /\ lruLast = [op |-> "new", key |-> 0, ret |-> Undefined, at |-> 0,
                  had |-> FALSE, sizeBefore |-> 0, written |-> NeverSet]
    /\ lruWritten = [k \in LruKeys |-> NeverSet]

InitLru == InitLruOf(LruMaxSize)

Tick ==
    /\ now < MaxTime
    /\ now' = now + 1
    /\ UNCHANGED <<pathVars, lruVars, clientVars>>

\* what a call records of the Map it found
LruCall(op, k, ret) ==
    [op |-> op, key |-> k, ret |-> ret, at |-> now, had |-> MapHas(lru, k),
     sizeBefore |-> Len(lru), written |-> IF k \in LruKeys THEN lruWritten[k] ELSE NeverSet]

\* the write record of a key is dropped with the key's record
LruForget(w, m) == [k \in LruKeys |-> IF MapHas(m, k) THEN w[k] ELSE NeverSet]

LruSet(k, v) ==
    /\ lru' = LruAfterSet(lru, k, v, now)
    /\ lruLast' = LruCall("set", k, v)
    /\ lruWritten' = LruForget([lruWritten EXCEPT ![k] = [value |-> v, at |-> now]], lru')
    /\ UNCHANGED <<pathVars, now, lruMaxSize, clientVars>>

LruGet(k) ==
    /\ lru' = LruAfterGet(lru, k, now)
    /\ lruLast' = LruCall("get", k, LruGetResult(lru, k, now))
    /\ lruWritten' = LruForget(lruWritten, lru')
    /\ UNCHANGED <<pathVars, now, lruMaxSize, clientVars>>

LruClear ==
    /\ lru' = <<>>
    /\ lruLast' = LruCall("clear", 0, Undefined)
    /\ lruWritten' = LruForget(lruWritten, lru')
    /\ UNCHANGED <<pathVars, now, lruMaxSize, clientVars>>

NextLru ==
    \/ Tick
    \/ \E k \in 1..(lruMaxSize + 1), v \in LruValues : LruSet(k, v)
    \/ \E k \in 1..(lruMaxSize + 1) : LruGet(k)
    \/ LruClear

SpecLru == InitLru /\ [][NextLru]_vars

\* the same cache, one record larger
InitLruWide == InitLruOf(LruMaxSize + 1)

SpecLruWide == InitLruWide /\ [][NextLru]_vars

(***************************************************************************)
(* Patterns: new RegExp(pattern) and XRootDClient.globToRegex              *)
(***************************************************************************)
Backslash == "\\"

\* the source of a regular expression read into atoms: a literal character,
\* '.', each with an optional '*', and the anchors '^' and '$'
RECURSIVE RegexAtoms(_)
RegexAtoms(src) ==
    IF src = <<>> THEN <<>>
    ELSE LET esc  == src[1] = Backslash /\ Len(src) >= 2
             used == IF esc THEN 2 ELSE 1
             kind == CASE esc -> "lit"
                       [] src[1] = "." -> "any"
                       [] src[1] = "^" -> "start"
                       [] src[1] = "$" -> "end"
                       [] OTHER -> "lit"
             star == Len(src) > used /\ src[used + 1] = "*"
             rest == SubSeq(src, used + (IF star THEN 2 ELSE 1), Len(src))
         IN  <<[kind |-> kind, char |-> src[used], esc |-> esc, star |-> star]>>
             \o RegexAtoms(rest)

AtomTakes(atom, c) == atom.kind = "any" \/ (atom.kind = "lit" /\ atom.char = c)

\* the atoms match a prefix of s
RECURSIVE MatchHere(_, _, _)
MatchHere(atoms, s, atStart) ==
    IF atoms = <<>> THEN TRUE
    ELSE LET a == atoms[1]
         IN  CASE a.kind = "start" -> atStart /\ MatchHere(Tail(atoms), s, atStart)
               [] a.kind = "end" -> s = <<>> /\ MatchHere(Tail(atoms), s, FALSE)
               [] a.star ->
                    \E k \in 0..Len(s) :
                        /\ \A j \in 1..k : AtomTakes(a, s[j])
                        /\ MatchHere(Tail(atoms), SubSeq(s, k + 1, Len(s)), FALSE)
               [] OTHER ->
                    /\ s # <<>>
                    /\ AtomTakes(a, s[1])
                    /\ MatchHere(Tail(atoms), Tail(s), FALSE)

\* new RegExp(src).test(s): the expression matches somewhere in s
RegexTest(src, s) ==
    LET atoms == RegexAtoms(src)
    IN  \E i \in 0..Len(s) : MatchHere(atoms, SubSeq(s, i + 1, Len(s)), i = 0)

\* glob.replace(/\./g, '\\.').replace(/\*/g, '.*').replace(/\?/g, '.')
RECURSIVE GlobEscaped(_)
GlobEscaped(glob) ==
    IF glob = <<>> THEN <<>>
    ELSE (CASE glob[1] = "." -> <<Backslash, ".">>
            [] glob[1] = "*" -> <<".", "*">>
            [] glob[1] = "?" -> <<".">>
            [] OTHER -> <<glob[1]>>)
         \o GlobEscaped(Tail(glob))

\* globToRegex(glob): new RegExp(`^${escaped}$`)
globToRegex(glob) == <<"^">> \o GlobEscaped(glob) \o <<"$">>

\* this.globToRegex(glob).test(name)
GlobTest(glob, name) == RegexTest(globToRegex(glob), name)

\* name.endsWith(suffix)
EndsWith(name, suffix) ==
    /\ Len(suffix) <= Len(name)
    /\ SubSeq(name, Len(name) - Len(suffix) + 1, Len(name)) = suffix

NoExtension == <<"n", "o", "-", "e", "x", "t", "e", "n", "s", "i", "o", "n">>

\* s.includes('.') ? s.split('.').pop() : 'no-extension'
ExtOf(s) ==
    IF \E i \in 1..Len(s) : s[i] = "."
    THEN LET ps == SplitBy(s, ".") IN ps[Len(ps)]
    ELSE NoExtension

\* path.substring(0, path.lastIndexOf('/'))
DirOf(path) ==
    LET idx == { i \in 1..Len(path) : path[i] = "/" }
    IN  IF idx = {} THEN <<>>
        ELSE SubSeq(path, 1, (CHOOSE i \in idx : \A j \in idx : j <= i) - 1)

\* optional values left out
NoSize == -1    \* size: undefined
NoTime == -1    \* modificationTime: undefined
NoOffset == -1  \* start, end: undefined

(***************************************************************************)
(* The Remote Directory Service (xrdfs / xrdcp run by execAsync)           *)
(***************************************************************************)
Entry(name, isDirectory, size, mtime) ==
    [name |-> name, isDirectory |-> isDirectory, size |-> size, mtime |-> mtime]

\* the hierarchy served: /d holds the directory a and the file f, /d/a the file g
DirD  == <<"/", "d">>
DirDA == <<"/", "d", "/", "a">>
BaseTree ==
    (DirD  :> << Entry(<<"a">>, TRUE, 0, 0), Entry(<<"f">>, FALSE, 2, 1) >>) @@
    (DirDA :> << Entry(<<"g">>, FALSE, 1, 2) >>)

\* the server resolves the path it is given
RemoteIsDir(tree, p) == NormalizedPath(p) \in DOMAIN tree

\* stdout of `xrdfs <server> ls -l <path>`: one long-format line per entry
RemoteLsLong(tree, p) ==
    LET dir == NormalizedPath(p)
        es  == tree[dir]
    IN  [i \in 1..Len(es) |->
            [fmt |-> "long", type |-> IF es[i].isDirectory THEN "d" ELSE "-",
             size |-> es[i].size, date |-> es[i].mtime,
             fullPath |-> CollapseSlashes(dir \o Slash \o es[i].name)]]

\* the entry a path names on the server, if any
RemoteEntryAt(tree, p) ==
    LET np  == NormalizedPath(p)
        ps  == FilterParts(Split(np))
        dir == Slash \o Join(SubSeq(ps, 1, Len(ps) - 1))
    IN  IF np \in DOMAIN tree
        THEN {Entry(IF ps = <<>> THEN <<>> ELSE ps[Len(ps)], TRUE, 0, 0)}
        ELSE IF ps # <<>> /\ dir \in DOMAIN tree
             THEN { tree[dir][i] : i \in { j \in 1..Len(tree[dir]) :
                                            tree[dir][j].name = ps[Len(ps)] } }
             ELSE {}

RemoteExists(tree, p) == RemoteEntryAt(tree, p) # {}

\* stdout of `xrdfs <server> stat <path>`: the Size, ModTime and IsDir lines
RemoteStat(tree, p) ==
    LET e == CHOOSE x \in RemoteEntryAt(tree, p) : TRUE
    IN  [size |-> e.size, modTime |-> e.mtime, isDir |-> e.isDirectory]

\* stdout of `xrdfs <server> ls <path>`: the full path of every entry
RemoteLs(tree, p) ==
    LET dir == NormalizedPath(p)
        es  == tree[dir]
    IN  [i \in 1..Len(es) |-> CollapseSlashes(dir \o Slash \o es[i].name)]

\* the bytes `xrdcp <url> -` writes: as many as the file's size, the range
\* start:end (both inclusive, end open when absent) cut out when one is given
RemoteRead(tree, p, start, end) ==
    LET e     == CHOOSE x \in RemoteEntryAt(tree, p) : TRUE
        bytes == [i \in 1..e.size |-> "b"]
    IN  IF start = NoOffset /\ end = NoOffset THEN bytes
        ELSE SubSeq(bytes, (IF start = NoOffset THEN 0 ELSE start) + 1,
                    IF end = NoOffset \/ end + 1 > Len(bytes) THEN Len(bytes)
                    ELSE end + 1)

\* the subtree below a directory, depth first: the full path of every entry
RECURSIVE RemoteSubtree(_, _, _)
RemoteSubtree(tree, dir, i) ==
    IF dir \notin DOMAIN tree \/ i > Len(tree[dir]) THEN <<>>
    ELSE LET full == CollapseSlashes(dir \o Slash \o tree[dir][i].name)
         IN  <<[path |-> full, name |-> tree[dir][i].name]>>
             \o (IF tree[dir][i].isDirectory THEN RemoteSubtree(tree, full, 1) ELSE <<>>)
             \o RemoteSubtree(tree, dir, i + 1)

RECURSIVE SelectNamed(_, _)
SelectNamed(items, pattern) ==
    IF items = <<>> THEN <<>>
    ELSE (IF GlobTest(pattern, items[1].name) THEN <<items[1].path>> ELSE <<>>)
         \o SelectNamed(Tail(items), pattern)

\* stdout of `xrdfs <server> find <path> -name '<pattern>'`: the full path of
\* every entry below the path whose name matches the pattern
RemoteFindName(tree, p, pattern) ==
    SelectNamed(RemoteSubtree(tree, NormalizedPath(p), 1), pattern)

(***************************************************************************)
(* DirectoryCache (./cache.js)                                             *)
(***************************************************************************)
\* get: the record is live
DcLive(rec, t) == ~(t - rec.timestamp > CacheTtl)

\* get(key): the record returned, none when absent or expired
DcHit(m, k, t) == MapHas(m, k) /\ DcLive(MapGet(m, k), t)

\* get(key): an expired record is deleted on the read
DcAfterGet(m, k, t) ==
    IF MapHas(m, k) /\ ~DcLive(MapGet(m, k), t) THEN MapDelete(m, k) ELSE m

\* the oldest record: the first one, in insertion order, with the smallest timestamp
DcOldest(m) ==
    CHOOSE i \in 1..Len(m) :
        /\ \A j \in 1..Len(m) : m[i].timestamp <= m[j].timestamp
        /\ \A j \in 1..(i - 1) : m[j].timestamp > m[i].timestamp

\* set(key, entries): at capacity the oldest record is evicted before the write
DcAfterSet(m, k, entries, t, listedAt) ==
    LET room == IF Len(m) >= CacheCapacity /\ Len(m) > 0
                THEN MapDelete(m, m[DcOldest(m)].key) ELSE m
    IN  MapSet(room, [key |-> k, value |-> entries, timestamp |-> t,
                      listedAt |-> listedAt])

\* cleanup(): every expired record is deleted
RECURSIVE DcAfterCleanup(_, _)
DcAfterCleanup(m, t) ==
    IF m = <<>> THEN <<>>
    ELSE IF DcLive(m[1], t) THEN <<m[1]>> \o DcAfterCleanup(Tail(m), t)
         ELSE DcAfterCleanup(Tail(m), t)

(***************************************************************************)
(* XRootDClient.listDirectory                                              *)
(***************************************************************************)
\* fullPath.trim().split('/').pop() || fullPath.trim()
NameOf(fullPath) ==
    IF LastPiece(fullPath) # <<>> THEN LastPiece(fullPath) ELSE fullPath

\* one line of the listing parsed into a DirectoryEntry; a line that is not
\* in the long format gives a non-directory entry without size and time
ParseLine(line) ==
    IF line.fmt = "long"
    THEN [name |-> NameOf(line.fullPath), isDirectory |-> line.type = "d",
          size |-> line.size, modificationTime |-> line.date]
    ELSE [name |-> NameOf(line.fullPath), isDirectory |-> FALSE,
          size |-> NoSize, modificationTime |-> NoTime]

ParseListing(lines) == [i \in 1..Len(lines) |-> ParseLine(lines[i])]

NoCmd == [kind |-> "none", path |-> <<>>, at |-> -1]
Cmd(kind, path, t) == [kind |-> kind, path |-> path, at |-> t]

\* the arguments of a call; an operation reads the ones it takes
NoFilter ==
    [extension |-> <<>>, minSize |-> NoSize, maxSize |-> NoSize,
     modifiedAfter |-> NoTime, modifiedBefore |-> NoTime, namePattern |-> <<>>]

NoArgs ==
    [path |-> <<>>, useCache |-> FALSE, recursive |-> FALSE, useRegex |-> FALSE,
     pattern |-> <<>>, hours |-> 0, filter |-> NoFilter, campaign |-> <<>>,
     start |-> NoOffset, end |-> NoOffset]

\* the directory a walk is waiting for
NoPending == [path |-> <<>>, label |-> <<>>]

\* a call that has not run yet
NewTask(op, args) ==
    [op |-> op, args |-> args, status |-> "running", error |-> "none",
     phase |-> "plain", top |-> <<>>, resolved |-> <<>>, cmd |-> NoCmd,
     issued |-> <<>>, pending |-> NoPending, stack |-> <<>>, acc |-> <<>>,
     errors |-> 0, ret |-> <<>>, fromCache |-> FALSE, age |-> -1]

IdleTask == [NewTask("none", NoArgs) EXCEPT !.status = "idle"]

\* throw
Fail(t, error) ==
    [t EXCEPT !.status = "failed", !.error = error, !.cmd = NoCmd,
              !.pending = NoPending, !.stack = <<>>, !.acc = <<>>]

\* return
Return(t, ret) ==
    [t EXCEPT !.status = "done", !.ret = ret, !.cmd = NoCmd,
              !.pending = NoPending, !.stack = <<>>, !.acc = <<>>]

\* the awaited execAsync rejected: one more remote call of this call failed
Rejected(t) == [t EXCEPT !.errors = @ + 1]

\* await execAsync(command)
Await(t, kind, path, time) ==
    [t EXCEPT !.status = "waiting", !.cmd = Cmd(kind, path, time),
              !.issued = Append(@, [kind |-> kind, path |-> path])]

(***************************************************************************)
(* What the operations compute from the entries                            *)
(***************************************************************************)
\* entry.size ?? 0
SizeOr0(e) == IF e.size = NoSize THEN 0 ELSE e.size

\* entry.modificationTime ?? fallback
TimeOr(e, fallback) == IF e.modificationTime = NoTime THEN fallback ELSE e.modificationTime

\* `${path}/${name}`.replace(/\/+/g, '/')
ChildOf(path, name) == CollapseSlashes(path \o Slash \o name)

Letters ==
    <<"a", "b", "c", "d", "e", "f", "g", "h", "i", "j", "k", "l", "m",
      "n", "o", "p", "q", "r", "s", "t", "u", "v", "w", "x", "y", "z">>

Rank(c) == IF \E i \in 1..Len(Letters) : Letters[i] = c
           THEN CHOOSE i \in 1..Len(Letters) : Letters[i] = c ELSE 0

\* a.localeCompare(b) < 0
RECURSIVE NameBefore(_, _)
NameBefore(a, b) ==
    IF b = <<>> THEN FALSE
    ELSE IF a = <<>> THEN TRUE
    ELSE IF a[1] = b[1] THEN NameBefore(Tail(a), Tail(b))
    ELSE Rank(a[1]) < Rank(b[1])

\* .sort((a, b) => a.name.localeCompare(b.name)), a stable sort
RECURSIVE SortByName(_)
SortByName(s) ==
    IF s = <<>> THEN <<>>
    ELSE LET x    == s[Len(s)]
             rest == SortByName(SubSeq(s, 1, Len(s) - 1))
             Stays(y) == ~NameBefore(x.name, y.name)
             Moves(y) == NameBefore(x.name, y.name)
         IN  SelectSeq(rest, Stays) \o <<x>> \o SelectSeq(rest, Moves)

\* a plausible slip: the files are left in the order the walk found them
SortByTimeSkipped(s) == s

\* .sort((a, b) => b.modificationTime.getTime() - a.modificationTime.getTime())
RECURSIVE SortByTimeDesc(_)
SortByTimeDesc(s) ==
    IF s = <<>> THEN <<>>
    ELSE LET x    == s[Len(s)]
             rest == SortByTimeDesc(SubSeq(s, 1, Len(s) - 1))
             Stays(y) == y.modificationTime >= x.modificationTime
             Moves(y) == y.modificationTime < x.modificationTime
         IN  SelectSeq(rest, Stays) \o <<x>> \o SelectSeq(rest, Moves)

RECURSIVE SumSize(_)
SumSize(s) == IF s = <<>> THEN 0 ELSE s[1].size + SumSize(Tail(s))

\* a plausible slip: the size bounds are exclusive, the other filters dropped
FilterEntriesExclusive(entries, filter) ==
    LET Keep(e) ==
            /\ ~(filter.minSize # NoSize /\ SizeOr0(e) <= filter.minSize)
            /\ ~(filter.maxSize # NoSize /\ SizeOr0(e) >= filter.maxSize)
    IN  SelectSeq(entries, Keep)

\* listDirectoryFiltered: entries.filter(entry => ...)
FilterEntries(entries, filter) ==
    LET Keep(e) ==
            /\ ~(filter.extension # <<>> /\ ~EndsWith(e.name, filter.extension))
            /\ ~(filter.minSize # NoSize /\ SizeOr0(e) < filter.minSize)
            /\ ~(filter.maxSize # NoSize /\ SizeOr0(e) > filter.maxSize)
            /\ ~(/\ filter.modifiedAfter # NoTime
                 /\ e.modificationTime # NoTime
                 /\ e.modificationTime < filter.modifiedAfter)
            /\ ~(/\ filter.modifiedBefore # NoTime
                 /\ e.modificationTime # NoTime
                 /\ e.modificationTime > filter.modifiedBefore)
            /\ ~(filter.namePattern # <<>> /\ ~GlobTest(filter.namePattern, e.name))
    IN  SelectSeq(entries, Keep)

IsDir(e) == e.isDirectory

\* listCampaigns: entries.filter(e => e.isDirectory).map(...).sort(...)
CampaignsOf(entries, resolvedPath) ==
    LET dirs == SelectSeq(entries, IsDir)
    IN  SortByName([i \in 1..Len(dirs) |->
                       [name |-> dirs[i].name,
                        path |-> ChildOf(resolvedPath, dirs[i].name),
                        modificationTime |-> dirs[i].modificationTime]])

\* listDatasets, catch: entries.filter(e => e.isDirectory).map(...)
FlatDatasets(entries, campaignPath) ==
    LET dirs == SelectSeq(entries, IsDir)
    IN  [i \in 1..Len(dirs) |->
            [name |-> dirs[i].name,
             path |-> campaignPath \o Slash \o dirs[i].name]]

\* what the operation returns from the entries of its one listing
Post(t, entries) ==
    CASE t.op = "listDirectoryFiltered" -> FilterEntries(entries, t.args.filter)
      [] t.op = "listCampaigns" -> CampaignsOf(entries, t.top)
      [] t.op = "listDatasets" -> FlatDatasets(entries, t.top)
      [] OTHER -> entries

\* getStatistics: the statistics before the walk
NoFile == [path |-> <<>>, mtime |-> NoTime, size |-> NoSize]
NewStatistics ==
    [totalFiles |-> 0, totalDirectories |-> 0, totalSize |-> 0,
     sizeByExtension |-> <<>>, oldestFile |-> NoFile, newestFile |-> NoFile,
     largestFile |-> NoFile]

\* sizeByExtension[ext], the extensions in the order they were first seen
\* the properties an object literal {} inherits from Object.prototype: its
\* methods, and the accessor __proto__; table[key] reads them when the table
\* has no property of its own under that key
ObjectPrototypeMethods ==
    { <<"c", "o", "n", "s", "t", "r", "u", "c", "t", "o", "r">>,
      <<"t", "o", "S", "t", "r", "i", "n", "g">>,
      <<"v", "a", "l", "u", "e", "O", "f">>,
      <<"h", "a", "s", "O", "w", "n", "P", "r", "o", "p", "e", "r", "t", "y">>,
      <<"i", "s", "P", "r", "o", "t", "o", "t", "y", "p", "e", "O", "f">>,
      <<"p", "r", "o", "p", "e", "r", "t", "y", "I", "s", "E", "n", "u", "m", "e", "r", "a", "b", "l", "e">>,
      <<"t", "o", "L", "o", "c", "a", "l", "e", "S", "t", "r", "i", "n", "g">>,
      <<"_", "_", "d", "e", "f", "i", "n", "e", "G", "e", "t", "t", "e", "r", "_", "_">>,
      <<"_", "_", "d", "e", "f", "i", "n", "e", "S", "e", "t", "t", "e", "r", "_", "_">>,
      <<"_", "_", "l", "o", "o", "k", "u", "p", "G", "e", "t", "t", "e", "r", "_", "_">>,
      <<"_", "_", "l", "o", "o", "k", "u", "p", "S", "e", "t", "t", "e", "r", "_", "_">> }

ProtoAccessor == <<"_", "_", "p", "r", "o", "t", "o", "_", "_">>

ObjectPrototypeKeys == ObjectPrototypeMethods \cup { ProtoAccessor }

\* (table[ext] || 0) + n where table[ext] is an inherited method: a string,
\* the text of the function followed by the digits of n
NotANumber == -1

ExtIndex(table, ext) == { i \in 1..Len(table) : table[i].ext = ext }

\* if (!table[ext]) table[ext] = { count: 0, size: 0 }; table[ext].count++;
\* table[ext].size += size: under an inherited key the test finds the
\* inherited value, no bucket is made and the count goes to that value
ExtCounted(table, ext, size) ==
    IF ext \in ObjectPrototypeKeys THEN table
    ELSE IF ExtIndex(table, ext) = {}
    THEN Append(table, [ext |-> ext, count |-> 1, size |-> size])
    ELSE [i \in 1..Len(table) |->
             IF table[i].ext = ext
             THEN [ext |-> ext, count |-> table[i].count + 1, size |-> table[i].size + size]
             ELSE table[i]]

\* a plausible slip: a file as old, as new or as large as the one held
\* replaces it
StatsVisitLastWins(stats, fullPath, e) ==
    IF e.isDirectory
    THEN [stats EXCEPT !.totalDirectories = @ + 1]
    ELSE LET size  == SizeOr0(e)
             mtime == TimeOr(e, 0)
         IN  [stats EXCEPT
                !.totalFiles = @ + 1,
                !.totalSize = @ + size,
                !.sizeByExtension = ExtCounted(@, ExtOf(e.name), size),
                !.oldestFile = IF @ = NoFile \/ mtime <= @.mtime
                               THEN [path |-> fullPath, mtime |-> mtime, size |-> NoSize]
                               ELSE @,
                !.newestFile = IF @ = NoFile \/ mtime >= @.mtime
                               THEN [path |-> fullPath, mtime |-> mtime, size |-> NoSize]
                               ELSE @,
                !.largestFile = IF @ = NoFile \/ size >= @.size
                                THEN [path |-> fullPath, mtime |-> NoTime, size |-> size]
                                ELSE @]

\* a plausible slip: the size of a file replaces the total
StatsVisitLastSize(stats, fullPath, e) ==
    IF e.isDirectory
    THEN [stats EXCEPT !.totalDirectories = @ + 1]
    ELSE [stats EXCEPT !.totalFiles = @ + 1, !.totalSize = SizeOr0(e)]

\* collectStatistics: one entry counted
StatsVisit(stats, fullPath, e) ==
    IF e.isDirectory
    THEN [stats EXCEPT !.totalDirectories = @ + 1]
    ELSE LET size  == SizeOr0(e)
             mtime == TimeOr(e, 0)
         IN  [stats EXCEPT
                !.totalFiles = @ + 1,
                !.totalSize = @ + size,
                !.sizeByExtension = ExtCounted(@, ExtOf(e.name), size),
                !.oldestFile = IF @ = NoFile \/ mtime < @.mtime
                               THEN [path |-> fullPath, mtime |-> mtime, size |-> NoSize]
                               ELSE @,
                !.newestFile = IF @ = NoFile \/ mtime > @.mtime
                               THEN [path |-> fullPath, mtime |-> mtime, size |-> NoSize]
                               ELSE @,
                !.largestFile = IF @ = NoFile \/ size > @.size
                                THEN [path |-> fullPath, mtime |-> NoTime, size |-> size]
                                ELSE @]

\* a SearchResult
Found(path, size, mtime, isDirectory) ==
    [path |-> path, size |-> size, modificationTime |-> mtime, isDirectory |-> isDirectory]

\* the keys of a Record<string, number>, in the order they were first set
RECURSIVE KeysSeen(_, _)
KeysSeen(keys, seen) ==
    IF keys = <<>> THEN <<>>
    ELSE IF keys[1] \in seen THEN KeysSeen(Tail(keys), seen)
         ELSE <<keys[1]>> \o KeysSeen(Tail(keys), seen \cup {keys[1]})

\* summarizeRecentChanges: the summary of the files found
Summary(recentFiles) ==
    LET sorted == SortByTimeDesc(recentFiles)
        Own(x) == x # ProtoAccessor
        exts   == SelectSeq(KeysSeen([i \in 1..Len(sorted) |-> ExtOf(sorted[i].path)], {}),
                            Own)
        Num(x, n) == IF x \in ObjectPrototypeMethods THEN NotANumber ELSE n
        dirs   == KeysSeen([i \in 1..Len(sorted) |-> DirOf(sorted[i].path)], {})
        WithExt(x) == LET Is(f) == ExtOf(f.path) = x IN SelectSeq(sorted, Is)
        InDir(d)   == LET Is(f) == DirOf(f.path) = d IN SelectSeq(sorted, Is)
    IN  [totalFilesAdded |-> Len(recentFiles),
         totalSizeAdded |-> SumSize(sorted),
         filesByExtension |->
            [i \in 1..Len(exts) |-> [key |-> exts[i], n |-> Num(exts[i], Len(WithExt(exts[i])))]],
         sizeByExtension |->
            [i \in 1..Len(exts) |-> [key |-> exts[i], n |-> Num(exts[i], SumSize(WithExt(exts[i])))]],
         filesByDirectory |->
            [i \in 1..Len(dirs) |-> [key |-> dirs[i], n |-> Len(InDir(dirs[i]))]],
         recentFiles |-> sorted]

\* listDirectory: whether this call reads and fills the cache
ListUsesCache(useCache) == useCache

\* a plausible slip: a live record is ignored and the listing fetched again
ListCacheHitNever(m, k, t) == FALSE

\* listDirectory: const cached = this.cache.get(resolvedPath); if (cached)
ListCacheHit(m, k, t) == DcHit(m, k, t)

\* listDirectory up to its await: access denied, a cached listing, or a miss
\* (the cache read deletes an expired record)
ListLookup(c, path, useCache, time) ==
    LET r == resolvePath(baseDirectory, path)
    IN  IF ~r.ok THEN [kind |-> "denied", key |-> <<>>, c |-> c]
        ELSE IF ListUsesCache(useCache) /\ ListCacheHit(c, r.path, time)
             THEN [kind |-> "hit", key |-> r.path, c |-> c]
             ELSE [kind |-> "miss", key |-> r.path,
                   c |-> IF ListUsesCache(useCache) THEN DcAfterGet(c, r.path, time)
                         ELSE c]

\* listDirectory after its await: the listing is parsed and stored
ListStore(c, key, useCache, lines, time, issuedAt) ==
    LET entries == ParseListing(lines)
    IN  [entries |-> entries,
         c |-> IF ListUsesCache(useCache)
               THEN DcAfterSet(c, key, entries, time, issuedAt)
               ELSE c]

\* a listDirectory(path, useCache) whose entries the operation returns, as
\* they are or filtered and mapped, up to its await
ListDirectoryStart(t, c, path, useCache, time) ==
    LET l == ListLookup(c, path, useCache, time)
    IN  CASE l.kind = "denied" -> [t |-> Fail(t, "AccessDenied"), c |-> l.c]
          [] l.kind = "hit" ->
                [t |-> Return([t EXCEPT !.resolved = l.key, !.fromCache = TRUE,
                                        !.age = time - MapGet(c, l.key).listedAt],
                              Post(t, MapGet(c, l.key).value)),
                 c |-> l.c]
          [] l.kind = "miss" ->
                [t |-> Await([t EXCEPT !.resolved = l.key], "ls-l", l.key, time),
                 c |-> l.c]

\* that listDirectory after its await
ListDirectoryDone(t, c, useCache, lines, time) ==
    LET s == ListStore(c, t.resolved, useCache, lines, time, t.cmd.at)
    IN  [t |-> Return(t, Post(t, s.entries)), c |-> s.c]

(***************************************************************************)
(* XRootDClient: the operations that walk the hierarchy                    *)
(***************************************************************************)
\* the deepest level listDatasets lists: detector, process type, process
DatasetDepth == 3

\* a plausible slip: every walk lists through the cache
WalkUsesCacheAlways(op) == TRUE

\* the useCache argument of the listDirectory calls of a walk
WalkUsesCache(op) == op \in {"getDirectorySize", "listDatasets"}

\* the path of an entry as the walk passes it on
ChildPath(op, path, name) ==
    IF op = "listDatasets" THEN path \o Slash \o name ELSE ChildOf(path, name)

\* a plausible slip: the dataset is named after its process directory alone
ChildLabelLast(label, name) == name

\* listDatasets: `${detector.name}/${processType.name}/${process.name}`
ChildLabel(label, name) == IF label = <<>> THEN name ELSE label \o Slash \o name

Frame(path, todo, label) == [path |-> path, todo |-> todo, label |-> label]

\* the body of the for loop over the entries of a directory, before a descent
Visit(t, f, e, depth, time) ==
    LET fullPath == ChildPath(t.op, f.path, e.name)
    IN  CASE t.op = "getDirectorySize" ->
                IF e.isDirectory THEN t.acc ELSE t.acc + SizeOr0(e)
          [] t.op = "searchFiles" ->
                IF RegexTest(t.args.pattern, e.name)
                THEN Append(t.acc, Found(fullPath, SizeOr0(e), TimeOr(e, time),
                                         e.isDirectory))
                ELSE t.acc
          [] t.op = "getStatistics" -> StatsVisit(t.acc, fullPath, e)
          [] t.op \in {"findRecentFiles", "summarizeRecentChanges"} ->
                IF ~e.isDirectory /\ TimeOr(e, 0) >= t.acc.cutoffTime
                THEN [t.acc EXCEPT !.results =
                         Append(@, Found(fullPath, SizeOr0(e), TimeOr(e, 0), FALSE))]
                ELSE t.acc
          [] t.op = "listDatasets" ->
                IF e.isDirectory /\ depth = DatasetDepth
                THEN Append(t.acc, [name |-> ChildLabel(f.label, e.name),
                                    path |-> fullPath])
                ELSE t.acc

\* the loop body goes into the entry
Descend(t, e, depth) ==
    /\ e.isDirectory
    /\ CASE t.op = "getDirectorySize" -> TRUE
         [] t.op = "summarizeRecentChanges" -> TRUE
         [] t.op = "listDatasets" -> depth < DatasetDepth
         [] OTHER -> t.args.recursive

\* what the operation returns when the walk is over
Finish(t) ==
    CASE t.op = "findRecentFiles" -> t.acc.results
      [] t.op = "summarizeRecentChanges" -> Summary(t.acc.results)
      [] OTHER -> t.acc

\* listDatasets, catch: the campaign directory is listed again and its
\* directories returned; the listing is the operation's last step
Fallback(t, c, time) ==
    ListDirectoryStart([t EXCEPT !.phase = "single", !.stack = <<>>, !.acc = <<>>,
                                 !.pending = NoPending, !.cmd = NoCmd],
                       c, t.top, TRUE, time)

\* an error thrown inside a walk
Throw(t, c, error, time) ==
    IF t.op = "listDatasets" THEN Fallback(t, c, time)
    ELSE [t |-> Fail(t, error), c |-> c]

RECURSIVE Walk(_, _, _)
RECURSIVE Enter(_, _, _, _, _)

\* the listDirectory call that opens a directory of the walk, up to its await
Enter(t, c, path, label, time) ==
    LET l == ListLookup(c, path, WalkUsesCache(t.op), time)
    IN  CASE l.kind = "denied" -> Throw(t, l.c, "AccessDenied", time)
          [] l.kind = "hit" ->
                Walk([t EXCEPT !.stack = Append(@, Frame(path, MapGet(c, l.key).value,
                                                         label))],
                     l.c, time)
          [] l.kind = "miss" ->
                [t |-> Await([t EXCEPT !.pending = [path |-> path, label |-> label]],
                             "ls-l", l.key, time),
                 c |-> l.c]

\* a plausible slip: the walk goes on with the directory it entered first,
\* so that a directory's entries are finished before any of its
\* subdirectories' entries are looked at (breadth first)
WalkBreadthFirst(t, c, time) ==
    IF t.stack = <<>> THEN [t |-> Return(t, Finish(t)), c |-> c]
    ELSE LET n == Len(t.stack)
             f == t.stack[1]
         IN  IF f.todo = <<>>
             THEN Walk([t EXCEPT !.stack = Tail(@)], c, time)
             ELSE LET e  == f.todo[1]
                      t1 == [t EXCEPT !.stack[1].todo = Tail(@),
                                      !.acc = Visit(t, f, e, n, time)]
                  IN  IF Descend(t, e, n)
                      THEN Enter(t1, c, ChildPath(t.op, f.path, e.name),
                                 ChildLabel(f.label, e.name), time)
                      ELSE Walk(t1, c, time)

\* the walk runs on until it awaits a listing or ends
Walk(t, c, time) ==
    IF t.stack = <<>> THEN [t |-> Return(t, Finish(t)), c |-> c]
    ELSE LET n == Len(t.stack)
             f == t.stack[n]
         IN  IF f.todo = <<>>
             THEN Walk([t EXCEPT !.stack = SubSeq(@, 1, n - 1)], c, time)
             ELSE LET e  == f.todo[1]
                      t1 == [t EXCEPT !.stack[n].todo = Tail(@),
                                      !.acc = Visit(t, f, e, n, time)]
                  IN  IF Descend(t, e, n)
                      THEN Enter(t1, c, ChildPath(t.op, f.path, e.name),
                                 ChildLabel(f.label, e.name), time)
                      ELSE Walk(t1, c, time)

\* the awaited listing of a walk arrived
WalkListed(t, c, lines, time) ==
    LET s == ListStore(c, t.cmd.path, WalkUsesCache(t.op), lines, time, t.cmd.at)
    IN  Walk([t EXCEPT !.stack = Append(@, Frame(t.pending.path, s.entries,
                                                 t.pending.label)),
                       !.pending = NoPending, !.cmd = NoCmd, !.status = "running"],
             s.c, time)

\* a walk from the directory the caller named
StartWalk(t, c, path, acc, time) ==
    Enter([t EXCEPT !.phase = "walk", !.acc = acc], c, path, <<>>, time)

\* getDirectorySize(path)
GetDirectorySizeStart(t, c, path, time) == StartWalk(t, c, path, 0, time)

\* getStatistics(path, recursive)
GetStatisticsStart(t, c, path, time) ==
    LET r == resolvePath(baseDirectory, path)
    IN  IF ~r.ok THEN [t |-> Fail(t, "AccessDenied"), c |-> c]
        ELSE StartWalk([t EXCEPT !.top = r.path], c, r.path, NewStatistics, time)

\* hours * 60 * 60 * 1000: a tick of the clock is half an hour
TicksPerHour == 2

\* a plausible slip: the hours are subtracted as if they were ticks
FindRecentFilesStartUnscaled(t, c, path, hours, time) ==
    LET r == resolvePath(baseDirectory, path)
    IN  IF ~r.ok THEN [t |-> Fail(t, "AccessDenied"), c |-> c]
        ELSE StartWalk([t EXCEPT !.top = r.path], c, r.path,
                       [cutoffTime |-> time - hours, results |-> <<>>], time)

\* findRecentFiles(path, hours, recursive), and summarizeRecentChanges on it
FindRecentFilesStart(t, c, path, hours, time) ==
    LET r == resolvePath(baseDirectory, path)
    IN  IF ~r.ok THEN [t |-> Fail(t, "AccessDenied"), c |-> c]
        ELSE StartWalk([t EXCEPT !.top = r.path], c, r.path,
                       [cutoffTime |-> time - hours * TicksPerHour, results |-> <<>>],
                       time)

\* listDatasets(campaign, recoPath)
ListDatasetsStart(t, c, campaign, recoPath, time) ==
    LET r == resolvePath(baseDirectory, recoPath \o Slash \o campaign)
    IN  IF ~r.ok THEN [t |-> Fail(t, "AccessDenied"), c |-> c]
        ELSE StartWalk([t EXCEPT !.top = r.path], c, r.path, <<>>, time)

\* listDirectoryFiltered(path, filter)
ListDirectoryFilteredStart(t, c, path, time) ==
    ListDirectoryStart([t EXCEPT !.phase = "single"], c, path, TRUE, time)

\* listCampaigns(recoPath)
ListCampaignsStart(t, c, recoPath, time) ==
    LET r == resolvePath(baseDirectory, recoPath)
    IN  IF ~r.ok THEN [t |-> Fail(t, "AccessDenied"), c |-> c]
        ELSE ListDirectoryStart([t EXCEPT !.phase = "single", !.top = r.path],
                                c, r.path, TRUE, time)

(***************************************************************************)
(* XRootDClient.getFileInfo, readFile, fileExists, searchFiles             *)
(***************************************************************************)
\* getFileInfo's result from the Size, ModTime and IsDir lines of the output
FileInfo(resolvedPath, stat, time) ==
    [path |-> resolvedPath,
     size |-> IF stat.size = NoSize THEN 0 ELSE stat.size,
     modificationTime |-> IF stat.modTime = NoTime THEN time ELSE stat.modTime,
     isDirectory |-> stat.isDir]

\* getFileInfo(path) up to its await; fileExists returns false when it throws
GetFileInfoStart(t, path, time) ==
    LET r == resolvePath(baseDirectory, path)
    IN  IF ~r.ok
        THEN IF t.op = "fileExists" THEN Return(t, FALSE) ELSE Fail(t, "AccessDenied")
        ELSE Await([t EXCEPT !.resolved = r.path], "stat", r.path, time)

\* a plausible slip: the URL is built from the path as the caller gave it
ReadFileStartUnresolved(t, path, time) ==
    Await([t EXCEPT !.resolved = ChildOf(baseDirectory, path)], "read",
          ChildOf(baseDirectory, path), time)

\* readFile(path, start, end) up to its await
ReadFileStart(t, path, time) ==
    LET r == resolvePath(baseDirectory, path)
    IN  IF ~r.ok THEN Fail(t, "AccessDenied")
        ELSE Await([t EXCEPT !.resolved = r.path], "read", r.path, time)

\* new RegExp(pattern) throws on a '*' with nothing to repeat
RegexValid(src) ==
    LET atoms == RegexAtoms(src)
    IN  \A i \in 1..Len(atoms) :
            /\ ~(atoms[i].kind = "lit" /\ atoms[i].char = "*" /\ ~atoms[i].esc)
            /\ ~(atoms[i].kind \in {"start", "end"} /\ atoms[i].star)

\* searchFiles, glob mode: the for loop over the paths found, up to the
\* await of the next getFileInfo; a path that cannot be resolved is skipped
RECURSIVE StatNext(_, _)
StatNext(t, time) ==
    IF t.stack[1].todo = <<>> THEN Return(t, t.acc)
    ELSE LET path == t.stack[1].todo[1]
             t1   == [t EXCEPT !.stack[1].todo = Tail(@)]
             r    == resolvePath(baseDirectory, path)
         IN  IF ~t.args.recursive /\ t.args.pattern # <<"*">>
                  /\ ~GlobTest(t.args.pattern, LastPiece(path))
             THEN StatNext(t1, time)
             ELSE IF ~r.ok THEN StatNext(t1, time)
                  ELSE Await([t1 EXCEPT !.pending = [path |-> path, label |-> <<>>]],
                             "stat", r.path, time)

\* searchFiles(pattern, basePath, recursive, useRegex) up to its first await
SearchFilesStart(t, c, pattern, basePath, recursive, useRegex, time) ==
    LET r == resolvePath(baseDirectory, basePath)
    IN  IF ~r.ok THEN [t |-> Fail(t, "AccessDenied"), c |-> c]
        ELSE IF ~useRegex
             THEN [t |-> Await([t EXCEPT !.phase = "items", !.top = r.path],
                               IF recursive THEN "find" ELSE "ls", r.path, time),
                   c |-> c]
             ELSE IF ~RegexValid(pattern)
                  THEN [t |-> Fail(t, "InvalidPattern"), c |-> c]
                  ELSE StartWalk([t EXCEPT !.top = r.path], c, r.path, <<>>, time)

\* searchFiles, glob mode: the paths of the output, then the first getFileInfo
SearchFilesFound(t, paths, time) ==
    StatNext([t EXCEPT !.stack = <<Frame(<<>>, paths, <<>>)>>, !.acc = <<>>,
                       !.cmd = NoCmd, !.status = "running"], time)

\* searchFiles, glob mode: a getFileInfo returned, the result is recorded
SearchFilesStated(t, stat, time) ==
    LET info == FileInfo(t.cmd.path, stat, time)
    IN  StatNext([t EXCEPT !.acc = Append(@, Found(t.pending.path, info.size,
                                                   info.modificationTime,
                                                   info.isDirectory)),
                           !.pending = NoPending, !.cmd = NoCmd,
                           !.status = "running"], time)

\* searchFiles, glob mode: a getFileInfo threw, the path is skipped
SearchFilesSkipped(t, time) ==
    StatNext([t EXCEPT !.pending = NoPending, !.cmd = NoCmd, !.status = "running"],
             time)

(***************************************************************************)
(* The client: Spec                                                        *)
(***************************************************************************)
Calls == DOMAIN tasks

\* logical paths the callers pass: the base itself, the directory a (relative
\* and absolute) and two paths outside the base (absolute and relative)
PathArgs ==
    { <<>>, <<"a">>, DirDA, <<"/", "e">>, <<".", ".", "/", "e">> }

\* a directory inside the base and a path outside it
DirArgs == { <<>>, <<"/", "e">> }

\* the file f, a name the server does not have, and a path outside the base
FileArgs == { <<"f">>, <<"x">>, <<"/", "e">> }

\* the base as an absolute path, the base itself, and a path outside it
SizeArgs == { DirD, <<>>, <<"/", "e">> }

\* the file f whole and from its second byte, and a path outside the base
ReadArgs ==
    { [path |-> <<"f">>, start |-> NoOffset, end |-> NoOffset],
      [path |-> <<"f">>, start |-> 1, end |-> NoOffset],
      [path |-> <<"/", "e">>, start |-> NoOffset, end |-> NoOffset] }

PatternArgs == { <<"*">>, <<"g">> }

\* every kind of search in the base, and one of each mode outside it
SearchArgs ==
    [pattern : PatternArgs, basePath : {<<>>}, recursive : BOOLEAN, useRegex : BOOLEAN]
    \cup [pattern : {<<"g">>}, basePath : {<<"/", "e">>}, recursive : {TRUE},
          useRegex : BOOLEAN]

FilterArgs ==
    { NoFilter, [NoFilter EXCEPT !.minSize = 1, !.namePattern = <<"?">>] }

HoursArgs == { 1 }

Free(i) == tasks[i].status \in {"idle", "done", "failed"}

\* new XRootDClient(serverUrl, '/d', enableCache, cacheTTLMinutes), serving
\* the given number of top-level calls at a time
InitClientOf(slots) ==
    /\ IdleRp
    /\ IdleLru
    /\ baseDirectory = ConstructBase(DirD)
    /\ enableCache \in BOOLEAN
    /\ cache = <<>>
    /\ remote = BaseTree
    /\ tasks = [i \in slots |-> IdleTask]

InitClient == InitClientOf({1})

\* call i has run up to its first await, its return or its throw
Ran(i, t, c) ==
    /\ tasks' = [tasks EXCEPT ![i] = t]
    /\ cache' = c
    /\ UNCHANGED <<pathVars, lruVars, now, enableCache, remote>>

CallListDirectory(i, path, useCache) ==
    /\ Free(i)
    /\ LET s == ListDirectoryStart(
                    NewTask("listDirectory",
                            [NoArgs EXCEPT !.path = path, !.useCache = useCache]),
                    cache, path, useCache, now)
       IN  Ran(i, s.t, s.c)

CallGetFileInfo(i, path) ==
    /\ Free(i)
    /\ Ran(i, GetFileInfoStart(NewTask("getFileInfo", [NoArgs EXCEPT !.path = path]),
                               path, now),
           cache)

CallReadFile(i, path, start, end) ==
    /\ Free(i)
    /\ Ran(i, ReadFileStart(NewTask("readFile", [NoArgs EXCEPT !.path = path,
                                                              !.start = start,
                                                              !.end = end]),
                            path, now),
           cache)

CallFileExists(i, path) ==
    /\ Free(i)
    /\ Ran(i, GetFileInfoStart(NewTask("fileExists", [NoArgs EXCEPT !.path = path]),
                               path, now),
           cache)

CallGetDirectorySize(i, path) ==
    /\ Free(i)
    /\ LET s == GetDirectorySizeStart(
                    NewTask("getDirectorySize", [NoArgs EXCEPT !.path = path]),
                    cache, path, now)
       IN  Ran(i, s.t, s.c)

CallSearchFiles(i, pattern, basePath, recursive, useRegex) ==
    /\ Free(i)
    /\ LET s == SearchFilesStart(
                    NewTask("searchFiles",
                            [NoArgs EXCEPT !.path = basePath, !.pattern = pattern,
                                           !.recursive = recursive,
                                           !.useRegex = useRegex]),
                    cache, pattern, basePath, recursive, useRegex, now)
       IN  Ran(i, s.t, s.c)

CallGetStatistics(i, path, recursive) ==
    /\ Free(i)
    /\ LET s == GetStatisticsStart(
                    NewTask("getStatistics", [NoArgs EXCEPT !.path = path,
                                                            !.recursive = recursive]),
                    cache, path, now)
       IN  Ran(i, s.t, s.c)

CallListDirectoryFiltered(i, path, filter) ==
    /\ Free(i)
    /\ LET s == ListDirectoryFilteredStart(
                    NewTask("listDirectoryFiltered",
                            [NoArgs EXCEPT !.path = path, !.filter = filter,
                                           !.useCache = TRUE]),
                    cache, path, now)
       IN  Ran(i, s.t, s.c)

CallFindRecentFiles(i, path, hours, recursive) ==
    /\ Free(i)
    /\ LET s == FindRecentFilesStart(
                    NewTask("findRecentFiles",
                            [NoArgs EXCEPT !.path = path, !.hours = hours,
                                           !.recursive = recursive]),
                    cache, path, hours, now)
       IN  Ran(i, s.t, s.c)

CallListCampaigns(i, recoPath) ==
    /\ Free(i)
    /\ LET s == ListCampaignsStart(
                    NewTask("listCampaigns", [NoArgs EXCEPT !.path = recoPath,
                                                            !.useCache = TRUE]),
                    cache, recoPath, now)
       IN  Ran(i, s.t, s.c)

CallListDatasets(i, campaign, recoPath) ==
    /\ Free(i)
    /\ LET s == ListDatasetsStart(
                    NewTask("listDatasets", [NoArgs EXCEPT !.path = recoPath,
                                                           !.campaign = campaign,
                                                           !.useCache = TRUE]),
                    cache, campaign, recoPath, now)
       IN  Ran(i, s.t, s.c)

CallSummarizeRecentChanges(i, path, hours) ==
    /\ Free(i)
    /\ LET s == FindRecentFilesStart(
                    NewTask("summarizeRecentChanges",
                            [NoArgs EXCEPT !.path = path, !.hours = hours,
                                           !.recursive = TRUE]),
                    cache, path, hours, now)
       IN  Ran(i, s.t, s.c)

Awaits(i, kinds) == tasks[i].status = "waiting" /\ tasks[i].cmd.kind \in kinds

\* `xrdfs ls -l` of call i succeeds
ReplyList(i) ==
    /\ Awaits(i, {"ls-l"})
    /\ RemoteIsDir(remote, tasks[i].cmd.path)
    /\ LET lines == RemoteLsLong(remote, tasks[i].cmd.path)
           s == IF tasks[i].phase = "walk"
                THEN WalkListed(tasks[i], cache, lines, now)
                ELSE ListDirectoryDone(tasks[i], cache, tasks[i].args.useCache,
                                       lines, now)
       IN  Ran(i, s.t, s.c)

\* a plausible slip: a listing that failed is cached as an empty directory
ReplyListErrorCachesEmpty(i) ==
    /\ Awaits(i, {"ls-l"})
    /\ LET t == Rejected(tasks[i])
           c == IF t.phase = "walk" THEN WalkUsesCache(t.op) ELSE t.args.useCache
           stored == IF c THEN DcAfterSet(cache, t.cmd.path, <<>>, now, t.cmd.at)
                     ELSE cache
           s == IF t.phase = "walk" THEN Throw(t, stored, "ListFailed", now)
                ELSE [t |-> Fail(t, "ListFailed"), c |-> stored]
       IN  Ran(i, s.t, s.c)

\* `xrdfs ls -l` of call i fails (no such directory, or the server is
\* unreachable): listDirectory throws
ReplyListError(i) ==
    /\ Awaits(i, {"ls-l"})
    /\ LET s == IF tasks[i].phase = "walk"
                THEN Throw(Rejected(tasks[i]), cache, "ListFailed", now)
                ELSE [t |-> Fail(Rejected(tasks[i]), "ListFailed"), c |-> cache]
       IN  Ran(i, s.t, s.c)

\* `xrdfs stat` of call i succeeds
ReplyStat(i) ==
    /\ Awaits(i, {"stat"})
    /\ RemoteExists(remote, tasks[i].cmd.path)
    /\ LET t    == tasks[i]
           stat == RemoteStat(remote, t.cmd.path)
       IN  Ran(i, CASE t.op = "fileExists" -> Return(t, TRUE)
                    [] t.op = "searchFiles" -> SearchFilesStated(t, stat, now)
                    [] OTHER -> Return(t, FileInfo(t.resolved, stat, now)),
               cache)

\* `xrdfs stat` of call i fails: getFileInfo throws
ReplyStatError(i) ==
    /\ Awaits(i, {"stat"})
    /\ LET t == Rejected(tasks[i])
       IN  Ran(i, CASE t.op = "fileExists" -> Return(t, FALSE)
                    [] t.op = "searchFiles" -> SearchFilesSkipped(t, now)
                    [] OTHER -> Fail(t, "StatFailed"),
               cache)

\* `xrdcp` of call i succeeds
ReplyRead(i) ==
    /\ Awaits(i, {"read"})
    /\ RemoteExists(remote, tasks[i].cmd.path)
    /\ ~RemoteIsDir(remote, tasks[i].cmd.path)
    /\ Ran(i, Return(tasks[i], RemoteRead(remote, tasks[i].cmd.path,
                                          tasks[i].args.start, tasks[i].args.end)),
           cache)

\* `xrdcp` of call i fails
ReplyReadError(i) ==
    /\ Awaits(i, {"read"})
    /\ Ran(i, Fail(Rejected(tasks[i]), "ReadFailed"), cache)

\* `xrdfs find` or `xrdfs ls` of a glob search succeeds
ReplyFind(i) ==
    /\ Awaits(i, {"find", "ls"})
    /\ RemoteIsDir(remote, tasks[i].cmd.path)
    /\ LET t == tasks[i]
           paths == IF t.cmd.kind = "find"
                    THEN RemoteFindName(remote, t.cmd.path, t.args.pattern)
                    ELSE RemoteLs(remote, t.cmd.path)
       IN  Ran(i, SearchFilesFound(t, paths, now), cache)

\* `xrdfs find` or `xrdfs ls` of a glob search fails
ReplyFindError(i) ==
    /\ Awaits(i, {"find", "ls"})
    /\ Ran(i, Fail(Rejected(tasks[i]), "FindFailed"), cache)

\* the janitor: setInterval(() => this.cache.cleanup(), ...), set only when enableCache
Janitor ==
    /\ enableCache
    /\ cache' = DcAfterCleanup(cache, now)
    /\ UNCHANGED <<pathVars, lruVars, now, enableCache, remote, tasks>>

\* clearCache()
ClearCache ==
    /\ cache' = <<>>
    /\ UNCHANGED <<pathVars, lruVars, now, enableCache, remote, tasks>>

Next ==
    \/ Tick
    \/ \E i \in Calls, p \in PathArgs, u \in BOOLEAN : CallListDirectory(i, p, u)
    \/ \E i \in Calls, p \in FileArgs : CallGetFileInfo(i, p)
    \/ \E i \in Calls, a \in ReadArgs : CallReadFile(i, a.path, a.start, a.end)
    \/ \E i \in Calls, p \in FileArgs : CallFileExists(i, p)
    \/ \E i \in Calls, p \in SizeArgs : CallGetDirectorySize(i, p)
    \/ \E i \in Calls, a \in SearchArgs :
          CallSearchFiles(i, a.pattern, a.basePath, a.recursive, a.useRegex)
    \/ \E i \in Calls, p \in DirArgs, r \in BOOLEAN : CallGetStatistics(i, p, r)
    \/ \E i \in Calls, p \in DirArgs, f \in FilterArgs :
          CallListDirectoryFiltered(i, p, f)
    \/ \E i \in Calls, p \in DirArgs, h \in HoursArgs, r \in BOOLEAN :
          CallFindRecentFiles(i, p, h, r)
    \/ \E i \in Calls, p \in DirArgs : CallListCampaigns(i, p)
    \/ \E i \in Calls, p \in SizeArgs : CallListDatasets(i, <<"a">>, p)
    \/ \E i \in Calls, p \in DirArgs, h \in HoursArgs : CallSummarizeRecentChanges(i, p, h)
    \/ \E i \in Calls : ReplyList(i)
    \/ \E i \in Calls : ReplyListError(i)
    \/ \E i \in Calls : ReplyStat(i)
    \/ \E i \in Calls : ReplyStatError(i)
    \/ \E i \in Calls : ReplyRead(i)
    \/ \E i \in Calls : ReplyReadError(i)
    \/ \E i \in Calls : ReplyFind(i)
    \/ \E i \in Calls : ReplyFindError(i)
    \/ Janitor
    \/ ClearCache

Spec == InitClient /\ [][Next]_vars

(***************************************************************************)
(* Concurrent listings: SpecConc                                           *)
(***************************************************************************)
\* two top-level calls in flight at a time, each a cached listing
InitConc == InitClientOf({1, 2})

ConcPaths == { <<>>, <<"a">> }

NextConc ==
    \/ Tick
    \/ \E i \in Calls, p \in ConcPaths : CallListDirectory(i, p, TRUE)
    \/ \E i \in Calls : ReplyList(i)
    \/ \E i \in Calls : ReplyListError(i)
    \/ Janitor
    \/ ClearCache

SpecConc == InitConc /\ [][NextConc]_vars

(***************************************************************************)
(* A deeper hierarchy, at a fixed instant: SpecTree                        *)
(***************************************************************************)
\* Date.now() while the calls run, in ticks
Noon == 4

\* the names of the hierarchy
NameARoot == <<"a", ".", "r", "o", "o", "t">>
NameBRoot == <<"b", ".", "r", "o", "o", "t">>
NameCTxt  == <<"c", ".", "t", "x", "t">>
NamePRoot == <<"p", ".", "r", "o", "o", "t">>
NameQRoot == <<"q", ".", "r", "o", "o", "t">>
NameRTxt  == <<"r", ".", "t", "x", "t">>
NameXROOT == <<"x", ".", "R", "O", "O", "T">>
NameYRoot == <<"y", ".", "r", "o", "o", "t">>
NameV1    == <<"v", ".", "1">>
NameKConstructor == <<"k", ".">> \o <<"c", "o", "n", "s", "t", "r", "u", "c", "t", "o", "r">>

DirS == DirD \o <<"/", "s">>
DirM == DirD \o <<"/", "m">>
DirK == DirM \o <<"/", "k">>
DirC == DirD \o <<"/", "c">>
DirE == DirC \o <<"/", "e">>
DirX == DirC \o <<"/", "x">>
DirP == DirE \o <<"/", "p">>
DirR == DirP \o <<"/", "r">>
DirW == DirP \o <<"/", "w">>
DirV == DirD \o Slash \o NameV1

\* /d/s holds three files and no directory; /d/m files of sizes 50 to 300 and
\* a directory; /d/c is a campaign with the detectors e and x, the process
\* type e/p and the processes e/p/r and e/p/w, and a file at every level;
\* /d/v.1 holds two files whose extensions differ in case and one without
ExampleTree ==
    (DirD :> << Entry(<<"s">>, TRUE, 0, Noon - 3), Entry(<<"h">>, FALSE, 7, Noon - 1),
                Entry(<<"m">>, TRUE, 0, Noon - 3), Entry(<<"c">>, TRUE, 0, Noon),
                Entry(NameV1, TRUE, 0, Noon) >>) @@
    (DirS :> << Entry(NameARoot, FALSE, 10, Noon - 2 * TicksPerHour),
                Entry(NameBRoot, FALSE, 20, Noon - 1),
                Entry(NameCTxt, FALSE, 5, Noon - TicksPerHour) >>) @@
    (DirM :> << Entry(NamePRoot, FALSE, 50, Noon - 4),
                Entry(NameQRoot, FALSE, 150, Noon - 1),
                Entry(<<"k">>, TRUE, 0, Noon - 1),
                Entry(NameRTxt, FALSE, 300, Noon - 2),
                Entry(<<"u">>, FALSE, 100, Noon - 3),
                Entry(<<"v">>, FALSE, 200, Noon) >>) @@
    (DirK :> << Entry(<<"z">>, FALSE, 150, Noon - 1) >>) @@
    (DirC :> << Entry(<<"n">>, FALSE, 1, Noon - 4), Entry(<<"e">>, TRUE, 0, Noon - 4),
                Entry(<<"x">>, TRUE, 0, Noon - 4) >>) @@
    (DirE :> << Entry(<<"p">>, TRUE, 0, Noon - 4), Entry(<<"f">>, FALSE, 2, Noon - 4) >>) @@
    (DirX :> << >>) @@
    (DirP :> << Entry(<<"r">>, TRUE, 0, Noon - 4), Entry(<<"g">>, FALSE, 3, Noon - 4),
                Entry(<<"w">>, TRUE, 0, Noon - 4) >>) @@
    (DirR :> << Entry(<<"y">>, FALSE, 4, Noon - 4) >>) @@
    (DirW :> << >>) @@
    (DirV :> << Entry(NameXROOT, FALSE, 2, Noon - 1), Entry(NameYRoot, FALSE, 2, Noon - 1),
                Entry(<<"n">>, FALSE, 300, Noon),
                Entry(NameKConstructor, FALSE, 2, Noon - 1) >>)

\* new XRootDClient(serverUrl, '/d') on that hierarchy, one call at a time
InitTree ==
    /\ IdleRp
    /\ now = Noon
    /\ lruMaxSize = LruMaxSize
    /\ lru = <<>>
    /\ lruLast = [op |-> "new", key |-> 0, ret |-> Undefined, at |-> 0,
                  had |-> FALSE, sizeBefore |-> 0, written |-> NeverSet]
    /\ lruWritten = [k \in LruKeys |-> NeverSet]
    /\ baseDirectory = ConstructBase(DirD)
    /\ enableCache = TRUE
    /\ cache = <<>>
    /\ remote = ExampleTree
    /\ tasks = [i \in {1} |-> IdleTask]

\* the base and the directories s and v.1
TreeDirArgs == { <<>>, <<"s">>, NameV1 }

\* no filter, each filter alone, and filters together
TreeFilterArgs ==
    { NoFilter,
      [NoFilter EXCEPT !.minSize = 100, !.maxSize = 200],
      [NoFilter EXCEPT !.extension = <<".", "r", "o", "o", "t">>],
      [NoFilter EXCEPT !.modifiedAfter = Noon - 2],
      [NoFilter EXCEPT !.modifiedBefore = Noon - 2],
      [NoFilter EXCEPT !.namePattern = <<"?", ".", "*">>],
      [NoFilter EXCEPT !.extension = <<".", "r", "o", "o", "t">>, !.minSize = 100,
                       !.modifiedAfter = Noon - 2, !.namePattern = <<"*", "o", "*">>] }

\* regular expressions: a name that holds an r, and a name of one character
TreeRegexArgs == { <<"r">>, <<"^", ".", "$">> }

NextTree ==
    \/ \E i \in Calls, p \in TreeDirArgs, r \in BOOLEAN : CallGetStatistics(i, p, r)
    \/ \E i \in Calls, f \in TreeFilterArgs : CallListDirectoryFiltered(i, <<"m">>, f)
    \/ \E i \in Calls, p \in TreeDirArgs, h \in HoursArgs, r \in BOOLEAN :
          CallFindRecentFiles(i, p, h, r)
    \/ \E i \in Calls : CallListDatasets(i, <<"c">>, DirD)
    \/ \E i \in Calls, p \in TreeDirArgs, h \in HoursArgs :
          CallSummarizeRecentChanges(i, p, h)
    \/ \E i \in Calls, x \in TreeRegexArgs, r \in BOOLEAN :
          CallSearchFiles(i, x, <<>>, r, TRUE)
    \/ \E i \in Calls : ReplyList(i)
    \/ \E i \in Calls : ReplyListError(i)
    \/ ClearCache

SpecTree == InitTree /\ [][NextTree]_vars

(***************************************************************************)
(* Properties of path resolution (SpecPath)                                *)
(***************************************************************************)
\* B + "/", the root base "/" being its own prefix
BaseSlash(base) == IF base = Slash THEN Slash ELSE base \o Slash

\* r is the base directory or below it
Within(r, base) == r = base \/ StartsWith(r, BaseSlash(base))

\* the normalization of a logical path: empty and '.' segments dropped, one
\* segment popped per '..'; a relative path is taken from the base directory
LogicalNormalized(base, path) ==
    IF StartsWith(path, Slash) THEN NormalizedPath(path)
    ELSE NormalizedPath(base \o Slash \o path)

\* C1: whenever resolvePath(p) succeeds, its result R is the base directory
\* B or starts with B + "/"; a sibling that only shares B as a string prefix
\* (B = /d, p = /db/e) is never returned.
C1_SandboxInvariant ==
    (rp.stage >= 1 /\ rp.r1.ok) => Within(rp.r1.path, baseDirectory)

\* the path has a '..' segment
HasDotDot(path) == \E i \in 1..Len(Split(path)) : Split(path)[i] = DotDot

\* C2: path traversal is refused: every logical path with a '..' segment,
\* absolute or relative, whose normalization is neither the base directory
\* nor below it fails with access denied (with base /d, the absolute path
\* /d/../e is such a path); with base /d the relative path e/d resolves to
\* /d/e/d.
C2_TraversalRejected ==
    rp.stage >= 1 =>
        /\ (/\ HasDotDot(rp.path)
            /\ ~Within(LogicalNormalized(baseDirectory, rp.path), baseDirectory))
               => ~rp.r1.ok
        /\ (baseDirectory = <<"/", "d">> /\ rp.path = <<"e", "/", "d">>)
               => rp.r1 = Resolved(<<"/", "d", "/", "e", "/", "d">>)

\* C4: resolvePath is idempotent: resolving the path a successful
\* resolvePath returned succeeds and returns the same path, for every base
\* directory, the root base included.
C4_ResolveIdempotent ==
    rp.stage = 2 => (rp.r2.ok /\ rp.r2.path = rp.r1.path)

\* a relative path with a '..' segment, resolved twice under the root base
C4_Witness ==
    /\ rp.stage = 2
    /\ baseDirectory = Slash
    /\ rp.path = <<"d", "/", ".", ".", "/", "e">>
    /\ rp.r2 = Resolved(<<"/", "e">>)

(***************************************************************************)
(* Properties of the LRUCache (SpecLru, SpecLruWide)                       *)
(***************************************************************************)
\* C5: get(key) never returns a record older than ttl; after set(key, v) at
\* time T with no later set of that key, a get(key) later than T + ttl
\* returns undefined, and a get(key) no later than T + ttl returns v while
\* the record is held (not evicted, not cleared).
C5_CacheTtl ==
    lruLast.op = "get" =>
        /\ lruLast.ret # Undefined =>
               (lruLast.had /\ lruLast.at - lruLast.written.at <= LruTtl)
        /\ ~lruLast.had => lruLast.ret = Undefined
        /\ (lruLast.had /\ lruLast.at > lruLast.written.at + LruTtl) =>
               lruLast.ret = Undefined
        /\ (lruLast.had /\ lruLast.at <= lruLast.written.at + LruTtl) =>
               lruLast.ret = lruLast.written.value

\* a get found a record written more than ttl ago and returned undefined
C5_Witness ==
    /\ lruLast.op = "get"
    /\ lruLast.had
    /\ lruLast.written # NeverSet
    /\ lruLast.at > lruLast.written.at + LruTtl
    /\ lruLast.ret = Undefined
    /\ ~MapHas(lru, lruLast.key)

\* the records of m with the smallest timestamp
Oldest(m) == { i \in 1..Len(m) : \A j \in 1..Len(m) : m[i].timestamp <= m[j].timestamp }

\* C6: a set(k, v) of a new key on a full cache removes exactly one held
\* record, one with the smallest timestamp among the records held before the
\* call, whatever sets, overwrites, gets and clears came before.
C6_EvictsOldest ==
    [][ \A k \in LruKeys, v \in LruValues :
          (LruSet(k, v) /\ Len(lru) = lruMaxSize /\ ~MapHas(lru, k)) =>
              \E i \in Oldest(lru) :
                  /\ MapKeys(lru') = (MapKeys(lru) \ {lru[i].key}) \cup {k}
                  /\ \A j \in 1..Len(lru) : j # i => MapGet(lru', lru[j].key) = lru[j]
      ]_vars

C20_OverwriteEvicts ==
    [][ (/\ lruLast'.op = "set"
         /\ lruLast'.had
         /\ lruLast'.sizeBefore = lruMaxSize
         /\ lru' # lru \/ lruLast' # lruLast) =>
            LET k == lruLast'.key
            IN  /\ MapHas(lru, k)
                /\ Len(lru) = lruMaxSize
                /\ Len(lru') \in {lruMaxSize, lruMaxSize - 1}
                /\ lru[1].key # k =>
                       (~MapHas(lru', lru[1].key) /\ Len(lru') = lruMaxSize - 1)
                /\ lru[1].key = k => Len(lru') = lruMaxSize
                /\ MapHas(lru', k)
                /\ MapGet(lru', k).value = lruLast'.ret
      ]_vars

\* a key the full cache held was overwritten and another key's record evicted
C20_Witness ==
    /\ lruLast.op = "set"
    /\ lruLast.had
    /\ lruLast.sizeBefore = lruMaxSize
    /\ lruMaxSize > 1
    /\ Len(lru) = lruMaxSize - 1
    /\ MapGet(lru, lruLast.key).value = lruLast.ret

TopPath(t) ==
    IF t.op = "listDatasets" THEN t.args.path \o Slash \o t.args.campaign
    ELSE t.args.path

\* call i starts in this step
Starts(i) ==
    /\ Free(i)
    /\ \/ tasks'[i].status = "waiting"
       \/ tasks'[i].op # tasks[i].op
       \/ tasks'[i].args # tasks[i].args

\* C3: a call of any of the twelve public operations with a logical path
\* whose resolution fails with access denied ends at once, without a command
\* issued to the Remote Directory Service (no list, stat, find or read) and
\* with the cache as it was.
C3_DeniedNoRemote ==
    [][\A i \in Calls :
          (Starts(i) /\ ~resolvePath(baseDirectory, TopPath(tasks'[i])).ok) =>
              /\ tasks'[i].status \in {"failed", "done"}
              /\ tasks'[i].issued = <<>>
              /\ cache' = cache
      ]_vars

\* listDatasets was called with a reco path outside the base while the cache
\* held a listing: it threw access denied and issued nothing
C3_Witness ==
    \E i \in Calls :
        /\ tasks[i].op = "listDatasets"
        /\ tasks[i].args.path = <<"/", "e">>
        /\ tasks[i].status = "failed"
        /\ tasks[i].error = "AccessDenied"
        /\ tasks[i].issued = <<>>
        /\ cache # <<>>

\* the operations that aggregate over remote calls
Aggregations ==
    {"getDirectorySize", "searchFiles", "getStatistics", "findRecentFiles",
     "summarizeRecentChanges", "listDirectoryFiltered", "listCampaigns"}

\* C11: in every aggregation a remote call (list, find or stat) that fails
\* ends the operation with an error: the call never goes on after a failed
\* remote call and never returns a result computed from the calls that
\* succeeded.
C11_NoPartialResults ==
    \A i \in Calls :
        (tasks[i].op \in Aggregations /\ tasks[i].errors > 0) =>
            tasks[i].status = "failed"

(***************************************************************************)
(* Properties of listDirectory and the cache (Spec, SpecConc)              *)
(***************************************************************************)
\* the DirectoryEntry values of a remote directory, in listing order
EntriesOf(tree, dir) ==
    [i \in 1..Len(tree[dir]) |->
        [name |-> tree[dir][i].name, isDirectory |-> tree[dir][i].isDirectory,
         size |-> tree[dir][i].size, modificationTime |-> tree[dir][i].mtime]]

\* C8: a client constructed with enableCache = false never stores a listing
\* and never returns one from the cache: every listDirectory call that
\* returned issued its command to the Remote Directory Service.
C8_DisabledCacheUnused ==
    ~enableCache =>
        /\ cache = <<>>
        /\ \A i \in Calls :
              (tasks[i].op = "listDirectory" /\ tasks[i].status = "done") =>
                  (~tasks[i].fromCache /\ Len(tasks[i].issued) = 1)

\* C9: a listing returned from the cache comes from a remote listing that
\* started no more than TTL before it is returned, and a record of the cache
\* is never replaced by the result of a remote listing that started earlier
\* than the one it holds, whatever the interleaving of the calls.
C9_StalenessBound ==
    /\ [](\A i \in Calls :
            (tasks[i].op = "listDirectory" /\ tasks[i].status = "done"
                /\ tasks[i].fromCache) => tasks[i].age <= CacheTtl)
    /\ [][\A k \in MapKeys(cache) \cap MapKeys(cache') :
              MapGet(cache', k).listedAt >= MapGet(cache, k).listedAt]_vars

\* C10: listDirectory(path, useCache = true) on a path that resolves: when
\* the cache holds a live record for the resolved path, the call returns
\* that record's entries and issues no command; otherwise it issues exactly
\* one listing command, for the resolved path, and when that succeeds the
\* directory's entries are stored under the resolved path and returned.
C10_ListDirectoryCached ==
    /\ [][\A i \in Calls, p \in PathArgs :
            (CallListDirectory(i, p, TRUE) /\ resolvePath(baseDirectory, p).ok) =>
                LET k == resolvePath(baseDirectory, p).path
                IN  IF DcHit(cache, k, now)
                    THEN /\ tasks'[i].status = "done"
                         /\ tasks'[i].ret = MapGet(cache, k).value
                         /\ tasks'[i].issued = <<>>
                    ELSE /\ tasks'[i].status = "waiting"
                         /\ tasks'[i].issued = <<[kind |-> "ls-l", path |-> k]>>
         ]_vars
    /\ [][\A i \in Calls :
            (ReplyList(i) /\ tasks[i].op = "listDirectory" /\ tasks[i].args.useCache) =>
                LET k == tasks[i].resolved
                IN  /\ tasks'[i].status = "done"
                    /\ tasks'[i].ret = EntriesOf(remote, NormalizedPath(k))
                    /\ tasks'[i].issued = <<[kind |-> "ls-l", path |-> k]>>
                    /\ MapHas(cache', k)
                    /\ MapGet(cache', k).value = tasks'[i].ret
         ]_vars

\* a cached listing call was answered from a live record, without a command
C10_Witness ==
    \E i \in Calls :
        /\ tasks[i].op = "listDirectory"
        /\ tasks[i].args.useCache
        /\ tasks[i].status = "done"
        /\ tasks[i].fromCache
        /\ tasks[i].issued = <<>>
        /\ tasks[i].ret = EntriesOf(remote, tasks[i].resolved)

(***************************************************************************)
(* Properties of the aggregations (Spec)                                   *)
(***************************************************************************)
\* the first-level subdirectories of a campaign directory of the server
FlatOf(tree, campaignPath) ==
    LET dirs == SelectSeq(EntriesOf(tree, campaignPath), IsDir)
    IN  [i \in 1..Len(dirs) |->
            [name |-> dirs[i].name, path |-> campaignPath \o Slash \o dirs[i].name]]

\* C12: a listDatasets call on a valid campaign path one of whose listings
\* (the campaign directory, a detector or a process-type directory) failed
\* never ends with an error; when it returns, it returns the first-level
\* subdirectories of the campaign, each under its own name.
C12_GracefulDegradation ==
    \A i \in Calls :
        (tasks[i].op = "listDatasets" /\ tasks[i].errors > 0) =>
            /\ tasks[i].status # "failed"
            /\ tasks[i].status = "done" =>
                   tasks[i].ret = FlatOf(remote, tasks[i].top)

(***************************************************************************)
(* Properties of the aggregations on the deeper hierarchy (SpecTree)       *)
(***************************************************************************)
\* the entries of a directory of the server, each with its full path
TopOf(tree, dir) ==
    { [path |-> CollapseSlashes(dir \o Slash \o tree[dir][i].name), e |-> tree[dir][i]] :
        i \in 1..Len(tree[dir]) }

\* the entries of the whole subtree below a directory of the server
RECURSIVE Below(_, _)
Below(tree, dir) ==
    TopOf(tree, dir) \cup
    UNION { Below(tree, x.path) : x \in { y \in TopOf(tree, dir) : y.e.isDirectory } }

Counted(tree, dir, recursive) == IF recursive THEN Below(tree, dir) ELSE TopOf(tree, dir)

FilesIn(S) == { x \in S : ~x.e.isDirectory }

RECURSIVE SumSizes(_)
SumSizes(S) ==
    IF S = {} THEN 0
    ELSE LET x == CHOOSE y \in S : TRUE IN x.e.size + SumSizes(S \ {x})

\* C13: getStatistics returns the number of files, the number of directories
\* and the sum of the file sizes of the whole subtree (of the top directory
\* alone when recursive = false), and a file of maximum size as largestFile;
\* for /d/s, the files a.root: 10, b.root: 20, c.txt: 5, it returns
\* totalFiles 3, totalSize 35, root: {2, 30}, txt: {1, 5} and b.root.
C13_Statistics ==
    \A i \in Calls :
        (tasks[i].op = "getStatistics" /\ tasks[i].status = "done") =>
            LET S     == Counted(remote, tasks[i].top, tasks[i].args.recursive)
                files == FilesIn(S)
                r     == tasks[i].ret
            IN  /\ r.totalFiles = Cardinality(files)
                /\ r.totalDirectories = Cardinality(S \ files)
                /\ r.totalSize = SumSizes(files)
                /\ files = {} => r.largestFile = NoFile
                /\ files # {} =>
                       \E x \in files :
                           /\ r.largestFile.path = x.path
                           /\ r.largestFile.size = x.e.size
                           /\ \A y \in files : y.e.size <= x.e.size
                /\ tasks[i].top = DirS =>
                       /\ r.totalFiles = 3
                       /\ r.totalSize = 35
                       /\ r.sizeByExtension =
                              << [ext |-> <<"r", "o", "o", "t">>, count |-> 2, size |-> 30],
                                 [ext |-> <<"t", "x", "t">>, count |-> 1, size |-> 5] >>
                       /\ r.largestFile.path = DirS \o Slash \o NameBRoot

\* a recursive getStatistics of the base returned: 18 files in 10 directories
C13_Witness ==
    \E i \in Calls :
        /\ tasks[i].op = "getStatistics"
        /\ tasks[i].status = "done"
        /\ tasks[i].args.recursive
        /\ tasks[i].top = DirD
        /\ tasks[i].ret.totalFiles = 18
        /\ tasks[i].ret.totalDirectories = 10

\* a glob read directly: '*' stands for any run of characters, '?' for one
RECURSIVE GlobMatches(_, _)
GlobMatches(g, s) ==
    IF g = <<>> THEN s = <<>>
    ELSE IF g[1] = "*"
         THEN GlobMatches(Tail(g), s) \/ (s # <<>> /\ GlobMatches(g, Tail(s)))
         ELSE /\ s # <<>>
              /\ g[1] = "?" \/ g[1] = s[1]
              /\ GlobMatches(Tail(g), Tail(s))

\* C14: a recursive glob search none of whose remote calls failed returns
\* exactly the files of the whole subtree under basePath whose name matches
\* the glob, each once, and no directory even when its name matches.
C14_GlobSearchFilesOnly ==
    \A i \in Calls :
        (/\ tasks[i].op = "searchFiles"
         /\ tasks[i].args.recursive
         /\ ~tasks[i].args.useRegex
         /\ tasks[i].errors = 0
         /\ tasks[i].status = "done") =>
            LET r == tasks[i].ret
                expected == { x.path : x \in { y \in FilesIn(Below(remote, tasks[i].top)) :
                                                 GlobMatches(tasks[i].args.pattern, y.e.name) } }
            IN  /\ \A k \in 1..Len(r) : ~r[k].isDirectory
                /\ { r[k].path : k \in 1..Len(r) } = expected
                /\ Len(r) = Cardinality(expected)

\* an entry satisfies every filter that is supplied
Satisfies(e, filter) ==
    /\ filter.extension = <<>> \/ EndsWith(e.name, filter.extension)
    /\ filter.minSize = NoSize \/ e.size >= filter.minSize
    /\ filter.maxSize = NoSize \/ e.size <= filter.maxSize
    /\ filter.modifiedAfter = NoTime \/ e.modificationTime >= filter.modifiedAfter
    /\ filter.modifiedBefore = NoTime \/ e.modificationTime <= filter.modifiedBefore
    /\ filter.namePattern = <<>> \/ GlobMatches(filter.namePattern, e.name)

RECURSIVE Satisfying(_, _)
Satisfying(entries, filter) ==
    IF entries = <<>> THEN <<>>
    ELSE (IF Satisfies(entries[1], filter) THEN <<entries[1]>> ELSE <<>>)
         \o Satisfying(Tail(entries), filter)

NamesOf(entries) == [k \in 1..Len(entries) |-> entries[k].name]

\* C15: listDirectoryFiltered returns, in listing order, exactly the entries
\* of the one listing of path that satisfy every supplied filter, and lists
\* no other directory; without a filter it returns the whole listing; with
\* minSize = 100 and maxSize = 200 it returns of /d/m (sizes 50, 150, 0, 300,
\* 100, 200) the entries of size 150, 100 and 200.
C15_FilteredListing ==
    \A i \in Calls :
        (tasks[i].op = "listDirectoryFiltered" /\ tasks[i].status = "done") =>
            LET dir     == resolvePath(baseDirectory, tasks[i].args.path).path
                listing == EntriesOf(remote, dir)
                f       == tasks[i].args.filter
            IN  /\ tasks[i].ret = Satisfying(listing, f)
                /\ \A k \in 1..Len(tasks[i].issued) : tasks[i].issued[k].path = dir
                /\ Len(tasks[i].issued) <= 1
                /\ f = NoFilter => tasks[i].ret = listing
                /\ f = [NoFilter EXCEPT !.minSize = 100, !.maxSize = 200] =>
                       NamesOf(tasks[i].ret) = <<NameQRoot, <<"u">>, <<"v">>>>

\* a listing filtered by size returned the entries of size 100 to 200
C15_Witness ==
    \E i \in Calls :
        /\ tasks[i].op = "listDirectoryFiltered"
        /\ tasks[i].status = "done"
        /\ tasks[i].args.filter = [NoFilter EXCEPT !.minSize = 100, !.maxSize = 200]
        /\ Len(tasks[i].ret) = 3
        /\ \A k \in 1..3 : tasks[i].ret[k].size \in {100, 150, 200}

\* C16: findRecentFiles returns exactly the files (of the whole subtree when
\* recursive, of the top directory when not) modified at or after
\* now - hours * 3600 s, each once, and never a directory; with hours = 1 the
\* file of /d/s modified two hours ago is left out and the one modified half
\* an hour ago is returned.
C16_RecentFiles ==
    \A i \in Calls :
        (tasks[i].op = "findRecentFiles" /\ tasks[i].status = "done") =>
            LET r      == tasks[i].ret
                cutoff == now - tasks[i].args.hours * TicksPerHour
                recent == { x \in FilesIn(Counted(remote, tasks[i].top,
                                                  tasks[i].args.recursive)) :
                              x.e.mtime >= cutoff }
                paths  == { r[k].path : k \in 1..Len(r) }
            IN  /\ paths = { x.path : x \in recent }
                /\ Len(r) = Cardinality(recent)
                /\ \A k \in 1..Len(r) : ~r[k].isDirectory
                /\ (tasks[i].top = DirS /\ tasks[i].args.hours = 1) =>
                       /\ DirS \o Slash \o NameARoot \notin paths
                       /\ DirS \o Slash \o NameBRoot \in paths

\* findRecentFiles('s', 1) returned b.root and c.txt, modified half an hour
\* and an hour ago, and not a.root, modified two hours ago
C16_Witness ==
    \E i \in Calls :
        /\ tasks[i].op = "findRecentFiles"
        /\ tasks[i].status = "done"
        /\ tasks[i].top = DirS
        /\ tasks[i].args.hours = 1
        /\ Len(tasks[i].ret) = 2
        /\ tasks[i].ret[1].path = DirS \o Slash \o NameBRoot
        /\ tasks[i].ret[1].modificationTime = now - 1

\* C17: a getDirectorySize call on a path inside the base none of whose
\* remote calls failed returns, and what it returns is the sum of the sizes
\* of all files of the whole subtree under the path, as the server holds them.
C17_DirectorySize ==
    \A i \in Calls :
        (/\ tasks[i].op = "getDirectorySize"
         /\ resolvePath(baseDirectory, tasks[i].args.path).ok
         /\ tasks[i].errors = 0
         /\ tasks[i].status \in {"done", "failed"}) =>
            /\ tasks[i].status = "done"
            /\ tasks[i].ret =
                   SumSizes(FilesIn(Below(remote,
                                          resolvePath(baseDirectory,
                                                      tasks[i].args.path).path)))

\* the names of the directories a directory of the server holds
DirNames(tree, dir) ==
    { tree[dir][i].name : i \in { j \in 1..Len(tree[dir]) : tree[dir][j].isDirectory } }

\* one dataset per directory at depth three under the campaign
DatasetsOf(tree, cp) ==
    UNION { UNION { { [name |-> d \o Slash \o t \o Slash \o p,
                       path |-> cp \o Slash \o d \o Slash \o t \o Slash \o p] :
                        p \in DirNames(tree, cp \o Slash \o d \o Slash \o t) } :
                    t \in DirNames(tree, cp \o Slash \o d) } :
            d \in DirNames(tree, cp) }

\* C18: a listDatasets call all of whose listings succeeded returns exactly
\* one dataset per directory at depth three under the campaign (detector,
\* process type, process), named detector/processType/process, its path the
\* campaign path followed by that name; files at any level give no dataset.
C18_Datasets ==
    \A i \in Calls :
        (/\ tasks[i].op = "listDatasets"
         /\ tasks[i].errors = 0
         /\ tasks[i].status = "done") =>
            LET r == tasks[i].ret
            IN  /\ { r[k] : k \in 1..Len(r) } = DatasetsOf(remote, tasks[i].top)
                /\ Len(r) = Cardinality(DatasetsOf(remote, tasks[i].top))

\* listDatasets('c', '/d') returned the datasets e/p/r and e/p/w
C18_Witness ==
    \E i \in Calls :
        /\ tasks[i].op = "listDatasets"
        /\ tasks[i].errors = 0
        /\ tasks[i].status = "done"
        /\ tasks[i].ret =
               << [name |-> <<"e", "/", "p", "/", "r">>, path |-> DirR],
                  [name |-> <<"e", "/", "p", "/", "w">>, path |-> DirW] >>

(***************************************************************************)
(* Properties of the walks and the cache (Spec)                            *)
(***************************************************************************)
\* the operations that list a directory and the directories below it
Walks ==
    {"getDirectorySize", "getStatistics", "findRecentFiles", "searchFiles",
     "listDatasets"}

\* call i walks and awaits the listing of a directory below its top directory
AwaitsBelowTop(i) ==
    /\ tasks[i].op \in Walks
    /\ tasks[i].phase = "walk"
    /\ Awaits(i, {"ls-l"})
    /\ tasks[i].cmd.path # resolvePath(baseDirectory, TopPath(tasks[i])).path

\* C19: the listing of a directory below the top directory of a walk is not
\* written to the cache: the step in which such a listing arrives leaves the
\* cache as it was.
C19_WalkBypassesCache ==
    [][\A i \in Calls :
          (/\ AwaitsBelowTop(i)
           /\ tasks'[i].status # "waiting" \/ tasks'[i].cmd # tasks[i].cmd) =>
              cache' = cache
      ]_vars

(***************************************************************************)
(* Properties of the extension tables (SpecTree)                           *)
(***************************************************************************)
\* a letter in lower case
Lower(ch) ==
    CASE ch = "R" -> "r" [] ch = "O" -> "o" [] ch = "T" -> "t" [] OTHER -> ch

\* the lowercase suffix after the last '.' of a filename, no-extension
\* when the name has no '.'
LowerExt(name) ==
    LET dots == { k \in 1..Len(name) : name[k] = "." }
    IN  IF dots = {} THEN NoExtension
        ELSE LET last == CHOOSE k \in dots : \A j \in dots : j <= k
             IN  [k \in 1..(Len(name) - last) |-> Lower(name[last + k])]

\* C22: the per-extension table of getStatistics has, for every file counted,
\* a bucket under the lowercase suffix after the last '.' of its name (under
\* no-extension for a name without '.'), and that bucket counts all the
\* files with that lowercase suffix: x.ROOT and y.root share a bucket.
C22_LowercaseExtensions ==
    \A i \in Calls :
        (tasks[i].op = "getStatistics" /\ tasks[i].status = "done") =>
            LET files == FilesIn(Counted(remote, tasks[i].top, tasks[i].args.recursive))
                table == tasks[i].ret.sizeByExtension
            IN  \A x \in files :
                    \E k \in 1..Len(table) :
                        /\ table[k].ext = LowerExt(x.e.name)
                        /\ table[k].count =
                               Cardinality({ y \in files :
                                               LowerExt(y.e.name) = LowerExt(x.e.name) })

(***************************************************************************)
(* Properties of the regular-expression search (SpecTree)                  *)
(***************************************************************************)
\* the two expressions read directly
RegexMatches(pattern, name) ==
    CASE pattern = <<"r">> -> \E k \in 1..Len(name) : name[k] = "r"
      [] pattern = <<"^", ".", "$">> -> Len(name) = 1

\* the directories a walk from a directory lists: the directory itself and,
\* when the walk is recursive, every directory below it
ListedBy(tree, dir, recursive) ==
    {dir} \cup { x.path : x \in { y \in Counted(tree, dir, recursive) : y.e.isDirectory
                                                                       /\ recursive } }

RegexSearch(t) == t.op = "searchFiles" /\ t.args.useRegex

\* C23: a regular-expression search that returned holds exactly the entries,
\* files and directories with their directory flag, whose name matches, of
\* the top directory (recursive = false) or of the whole subtree (recursive =
\* true); it has listed each of those directories once, remotely, and no
\* step of the search changes the cache.
C23_RegexSearch ==
    /\ [](\A i \in Calls :
            (RegexSearch(tasks[i]) /\ tasks[i].status = "done") =>
                LET t    == tasks[i]
                    hits == { x \in Counted(remote, t.top, t.args.recursive) :
                                RegexMatches(t.args.pattern, x.e.name) }
                IN  /\ { [path |-> t.ret[k].path, isDirectory |-> t.ret[k].isDirectory] :
                           k \in 1..Len(t.ret) }
                         = { [path |-> x.path, isDirectory |-> x.e.isDirectory] :
                               x \in hits }
                    /\ Len(t.ret) = Cardinality(hits)
                    /\ { t.issued[k].path : k \in 1..Len(t.issued) }
                         = ListedBy(remote, t.top, t.args.recursive)
                    /\ Len(t.issued) = Cardinality(ListedBy(remote, t.top,
                                                            t.args.recursive))
                    /\ ~t.fromCache)
    /\ [][\A i \in Calls :
            (/\ RegexSearch(tasks'[i])
             /\ \/ tasks'[i].status # tasks[i].status
                \/ tasks'[i].cmd # tasks[i].cmd
                \/ tasks'[i].op # tasks[i].op) => cache' = cache
         ]_vars

\* a recursive search for names that hold an r returned the directory r and
\* seven files, from eleven listings, the cache holding a record meanwhile
C23_Witness ==
    \E i \in Calls :
        /\ RegexSearch(tasks[i])
        /\ tasks[i].status = "done"
        /\ tasks[i].args.recursive
        /\ tasks[i].args.pattern = <<"r">>
        /\ Len(tasks[i].ret) = 8
        /\ \E k \in 1..8 : tasks[i].ret[k].isDirectory /\ tasks[i].ret[k].path = DirR
        /\ Len(tasks[i].issued) = 11
        /\ cache # <<>>

(***************************************************************************)
(* Properties of summarizeRecentChanges (SpecTree)                         *)
(***************************************************************************)
\* the sum of the values of a Record<string, number>
RECURSIVE SumN(_)
SumN(table) == IF table = <<>> THEN 0 ELSE table[1].n + SumN(Tail(table))

\* the files of the whole subtree modified at or after the cutoff of a call
RecentBelow(t) ==
    { x \in FilesIn(Below(remote, t.top)) :
        x.e.mtime >= now - t.args.hours * TicksPerHour }

\* C24: summarizeRecentChanges returns as recentFiles exactly the files a
\* recursive findRecentFiles returns, most recently modified first;
\* totalFilesAdded is their number and the sum of the counts of
\* filesByExtension and of filesByDirectory; totalSizeAdded is the sum of
\* their sizes and the sum of the values of sizeByExtension.
C24_SummaryConsistent ==
    \A i \in Calls :
        (tasks[i].op = "summarizeRecentChanges" /\ tasks[i].status = "done") =>
            LET r == tasks[i].ret
                f == r.recentFiles
            IN  /\ \A k \in 1..(Len(f) - 1) :
                       f[k].modificationTime >= f[k + 1].modificationTime
                /\ { [path |-> f[k].path, size |-> f[k].size] : k \in 1..Len(f) }
                     = { [path |-> x.path, size |-> x.e.size] : x \in RecentBelow(tasks[i]) }
                /\ Len(f) = Cardinality(RecentBelow(tasks[i]))
                /\ r.totalFilesAdded = Len(f)
                /\ r.totalFilesAdded = SumN(r.filesByExtension)
                /\ r.totalFilesAdded = SumN(r.filesByDirectory)
                /\ r.totalSizeAdded = SumSizes(RecentBelow(tasks[i]))
                /\ r.totalSizeAdded = SumN(r.sizeByExtension)

(***************************************************************************)
(* Properties of the order of the remote listings (SpecTree)               *)
(***************************************************************************)
\* the directories of a subtree in depth-first order, a directory before
\* the directories below it, these in listing order
RECURSIVE Preorder(_, _)
RECURSIVE PreorderFrom(_, _, _)
Preorder(tree, dir) == <<dir>> \o PreorderFrom(tree, dir, 1)

PreorderFrom(tree, dir, k) ==
    IF k > Len(tree[dir]) THEN <<>>
    ELSE (IF tree[dir][k].isDirectory
          THEN Preorder(tree, CollapseSlashes(dir \o Slash \o tree[dir][k].name))
          ELSE <<>>)
         \o PreorderFrom(tree, dir, k + 1)

IsPrefix(a, b) == Len(a) <= Len(b) /\ a = SubSeq(b, 1, Len(a))

\* the walks that list every directory remotely
UncachedWalk(t) ==
    /\ t.phase = "walk"
    /\ \/ t.op \in {"getStatistics", "findRecentFiles", "summarizeRecentChanges"}
       \/ RegexSearch(t)

\* the listings a walk issues when none fails
OrderOf(t) ==
    IF t.op = "summarizeRecentChanges" \/ t.args.recursive
    THEN Preorder(remote, t.top)
    ELSE <<t.top>>

RecursiveWalk(t) ==
    /\ resolvePath(baseDirectory, t.args.path).ok
    /\ \/ t.op = "getDirectorySize"
       \/ t.op \in {"getStatistics", "findRecentFiles"} /\ t.args.recursive
       \/ RegexSearch(t) /\ t.args.recursive /\ RegexValid(t.args.pattern)

\* C26: a recursive walk none of whose remote calls failed ends by
\* returning, never by throwing, and has then requested the listing of
\* every directory of the subtree once: no directory twice, and every
\* directory when the walk lists without the cache.
C26_EachDirectoryOnce ==
    \A i \in Calls :
        (/\ RecursiveWalk(tasks[i])
         /\ tasks[i].errors = 0
         /\ tasks[i].status \in {"done", "failed"}) =>
            LET t    == tasks[i]
                top  == resolvePath(baseDirectory, t.args.path).path
                dirs == ListedBy(remote, top, TRUE)
                seen == { t.issued[k].path : k \in 1..Len(t.issued) }
            IN  /\ t.status = "done"
                /\ Len(t.issued) = Cardinality(seen)
                /\ seen \subseteq dirs
                /\ t.op # "getDirectorySize" => seen = dirs

(***************************************************************************)
(* Properties of the statistics during the walk (SpecTree)                 *)
(***************************************************************************)
\* the files of a subtree in the order a walk comes to them: the entries of
\* a directory in listing order, a subdirectory's files in its place
RECURSIVE FilesFrom(_, _, _, _)
FilesFrom(tree, dir, k, recursive) ==
    IF k > Len(tree[dir]) THEN <<>>
    ELSE LET e    == tree[dir][k]
             full == CollapseSlashes(dir \o Slash \o e.name)
         IN  (IF ~e.isDirectory THEN <<[path |-> full, e |-> e]>>
              ELSE IF recursive THEN FilesFrom(tree, full, 1, recursive)
              ELSE <<>>)
             \o FilesFrom(tree, dir, k + 1, recursive)

RECURSIVE SumCount(_)
SumCount(table) == IF table = <<>> THEN 0 ELSE table[1].count + SumCount(Tail(table))

RECURSIVE SumBucket(_)
SumBucket(table) == IF table = <<>> THEN 0 ELSE table[1].size + SumBucket(Tail(table))

\* the first of the files that no other file beats
FirstBest(files, Beats(_, _)) ==
    LET best == { k \in 1..Len(files) : \A j \in 1..Len(files) : ~Beats(files[j], files[k]) }
    IN  files[CHOOSE k \in best : \A j \in best : k <= j].path

Older(x, y)  == x.e.mtime < y.e.mtime
Newer(x, y)  == x.e.mtime > y.e.mtime
Larger(x, y) == x.e.size > y.e.size

\* the statistics a getStatistics call holds: its result, or the object it
\* fills while it awaits a listing
StatsHeld(t) == IF t.status = "done" THEN t.ret ELSE t.acc

\* C27: in the statistics of a getStatistics call, while it walks and when
\* it has returned, totalFiles is the sum of the counts and totalSize the
\* sum of the sizes of the extension table; oldestFile, newestFile and
\* largestFile are all set when a file has been counted and all unset
\* otherwise, and each is the first of the files counted so far that no
\* other is older, newer or larger than.
C27_StatisticsConsistent ==
    \A i \in Calls :
        (tasks[i].op = "getStatistics" /\ tasks[i].status \in {"waiting", "done"}) =>
            LET st   == StatsHeld(tasks[i])
                seen == SubSeq(FilesFrom(remote, tasks[i].top, 1, tasks[i].args.recursive),
                               1, st.totalFiles)
            IN  /\ st.totalFiles = SumCount(st.sizeByExtension)
                /\ st.totalSize = SumBucket(st.sizeByExtension)
                /\ st.totalFiles = 0 =>
                       (st.oldestFile = NoFile /\ st.newestFile = NoFile
                           /\ st.largestFile = NoFile)
                /\ st.totalFiles > 0 =>
                       /\ st.oldestFile # NoFile
                       /\ st.newestFile # NoFile
                       /\ st.largestFile # NoFile
                       /\ Len(seen) = st.totalFiles
                       /\ st.oldestFile.path = FirstBest(seen, Older)
                       /\ st.newestFile.path = FirstBest(seen, Newer)
                       /\ st.largestFile.path = FirstBest(seen, Larger)

\* a recursive getStatistics of the base returned: of six files equally
\* old, two equally new and two equally large, it names the first it saw
C27_Witness ==
    \E i \in Calls :
        /\ tasks[i].op = "getStatistics"
        /\ tasks[i].status = "done"
        /\ tasks[i].top = DirD
        /\ tasks[i].args.recursive
        /\ tasks[i].ret.oldestFile.path = DirS \o Slash \o NameARoot
        /\ tasks[i].ret.newestFile.path = DirM \o <<"/", "v">>
        /\ tasks[i].ret.largestFile.path = DirM \o Slash \o NameRTxt

(***************************************************************************)
(* The extension keys of summarizeRecentChanges (SpecTree)                 *)
(***************************************************************************)
\* the filename of a path: what follows its last '/'
NameOfPath(path) == LET ps == SplitBy(path, "/") IN ps[Len(ps)]

\* C28: the extension keys of a summarizeRecentChanges result are the
\* extensions of the filenames of its recent files, whatever the names of
\* the directories on their paths: a file without '.' in its name is counted
\* under no-extension, as getStatistics counts it.
C28_ExtensionFromFilename ==
    \A i \in Calls :
        (tasks[i].op = "summarizeRecentChanges" /\ tasks[i].status = "done") =>
            LET r == tasks[i].ret
            IN  { r.filesByExtension[k].key : k \in 1..Len(r.filesByExtension) }
                  = { ExtOf(NameOfPath(r.recentFiles[k].path)) : k \in 1..Len(r.recentFiles) }

(***************************************************************************)
(* The cache key of a directory (SpecPath)                                 *)
(***************************************************************************)
\* C29: every logical path that denotes a directory inside the sandbox,
\* relative or absolute, with or without a trailing slash, doubled slashes
\* or '.' and '..' segments, resolves to one cache key, the normalized path
\* of that directory, so two spellings of a directory never give two keys.
C29_CanonicalCacheKey ==
    (rp.stage >= 1 /\ Within(LogicalNormalized(baseDirectory, rp.path), baseDirectory)) =>
        rp.r1 = Resolved(LogicalNormalized(baseDirectory, rp.path))

(***************************************************************************)
(* The cache and failed listings (Spec)                                    *)
(***************************************************************************)
\* a listing of call i fails in this step: a listDirectory call is denied
\* access at its start, or the `xrdfs ls -l` a call awaits is rejected and
\* the call ends with that error
ListingFails(i) ==
    \/ /\ Starts(i)
       /\ tasks'[i].op = "listDirectory"
       /\ tasks'[i].status = "failed"
    \/ /\ tasks[i].status = "waiting"
       /\ tasks[i].cmd.kind = "ls-l"
       /\ tasks'[i].errors = tasks[i].errors + 1
       /\ tasks'[i].status = "failed"

\* listDirectory call i starts in this step and goes to the server
ListingGoesOut(i) ==
    /\ Starts(i)
    /\ tasks'[i].op = "listDirectory"
    /\ tasks'[i].status = "waiting"

\* the record of key k is in the cache and expired
ExpiredRecord(k) == MapHas(cache, k) /\ now - MapGet(cache, k).timestamp > CacheTtl

\* every record is the parsed listing the server gives for its key
RecordsAreListings ==
    \A k \in 1..Len(cache) :
        /\ RemoteIsDir(remote, cache[k].key)
        /\ cache[k].value = ParseListing(RemoteLsLong(remote, cache[k].key))

\* C30 as stated: a listDirectory call that ends with an error has left
\* the cache as it was: none of its steps, neither the lookup before the
\* remote listing nor the failure, creates, overwrites or removes a record.
C30_FailedListingCacheUnchanged ==
    [][\A i \in Calls : (ListingFails(i) \/ ListingGoesOut(i)) => cache' = cache]_vars

\* C30, amended: the failure of a listing (access denied, or the remote
\* listing rejected) changes no record, and the lookup that precedes the
\* remote listing creates and overwrites none and removes at most one, the
\* expired record of the requested key, and only when useCache is set; every
\* record in the cache is the parsed listing the server gives for its key.
C30_FailedListingKeepsRecords ==
    /\ []RecordsAreListings
    /\ [][\A i \in Calls :
            /\ ListingFails(i) => cache' = cache
            /\ ListingGoesOut(i) =>
                   LET key == tasks'[i].resolved
                   IN  IF tasks'[i].args.useCache /\ ExpiredRecord(key)
                       THEN cache' = MapDelete(cache, key)
                       ELSE cache' = cache
       ]_vars

\* a cached listDirectory of /d/a found the record of /d/a expired, dropped
\* it and failed on the server; the record of another directory is still held
C30_Witness ==
    \E i \in Calls :
        /\ tasks[i].op = "listDirectory"
        /\ tasks[i].args.useCache
        /\ tasks[i].status = "failed"
        /\ tasks[i].error = "ListFailed"
        /\ tasks[i].resolved = DirDA
        /\ ~MapHas(cache, DirDA)
        /\ MapHas(cache, DirD)
        /\ now = MaxTime

====
